---- MODULE Spec2Model ----
(***************************************************************************)
(* Chinese Chess (Xiangqi): the ChessGame object of chess_game.py, its     *)
(* move generator and the WXF notation conversion functions.               *)
(*                                                                         *)
(* A square is written <<y, x>> (row, column) as in the source; a Python   *)
(* tuple index pos[0] / pos[1] is pos[1] / pos[2] here.  A WXF move is the  *)
(* tuple of its four characters: 'c2.5' is <<"c", "2", ".", "5">>.         *)
(***************************************************************************)
EXTENDS Integers, Sequences, FiniteSets, TLC

\* chess_game.py:23
_MAX_MOVES == 200

(***************************************************************************)
(* Pieces and boards                                                       *)
(***************************************************************************)

\* _Piece(kind, is_red); equality is field-wise, as _Piece.__eq__ defines it.
_Piece(kind, is_red) == [kind |-> kind, is_red |-> is_red]

\* Python's None in a board cell (equal to no piece: __eq__ returns False).
None == [kind |-> "none", is_red |-> FALSE]

\* The board built from a set of placements <<y, x, kind, is_red>>.
BoardOf(placed) ==
    [y \in 0..9 |-> [x \in 0..8 |->
        IF \E p \in placed : p[1] = y /\ p[2] = x
        THEN LET p == CHOOSE q \in placed : q[1] = y /\ q[2] = x
             IN  _Piece(p[3], p[4])
        ELSE None]]

\* The back rank of either side, column 0 to column 8.
BackRank == <<"r", "h", "e", "a", "k", "a", "e", "h", "r">>

\* ChessGame.__init__ with board=None: the standard 32-piece layout.
InitialBoard ==
    [y \in 0..9 |-> [x \in 0..8 |->
        CASE y = 0 -> _Piece(BackRank[x + 1], FALSE)
          [] y = 9 -> _Piece(BackRank[x + 1], TRUE)
          [] y = 2 /\ x \in {1, 7} -> _Piece("c", FALSE)
          [] y = 7 /\ x \in {1, 7} -> _Piece("c", TRUE)
          [] y = 3 /\ x \in {0, 2, 4, 6, 8} -> _Piece("p", FALSE)
          [] y = 6 /\ x \in {0, 2, 4, 6, 8} -> _Piece("p", TRUE)
          [] OTHER -> None]]

(***************************************************************************)
(* Python primitives the conversion functions rely on                      *)
(***************************************************************************)

Digits == <<"0", "1", "2", "3", "4", "5", "6", "7", "8", "9">>

\* str(n) for the one-digit numbers the notation uses.
str(n) == Digits[n + 1]

\* str.isdigit() of one character.
isdigit(ch) == \E i \in 1..10 : Digits[i] = ch

\* int(ch) of one character (only used where ch is a digit).
int(ch) == (CHOOSE i \in 1..10 : Digits[i] = ch) - 1

abs(n) == IF n < 0 THEN -n ELSE n

UpperCase == <<"R", "H", "E", "A", "K", "C", "P">>
LowerCase == <<"r", "h", "e", "a", "k", "c", "p">>

\* str.lower() of one character.
lowerChar(ch) ==
    IF \E i \in 1..7 : UpperCase[i] = ch
    THEN LowerCase[CHOOSE i \in 1..7 : UpperCase[i] = ch]
    ELSE ch

\* str.upper() of one character.
upperChar(ch) ==
    IF \E i \in 1..7 : LowerCase[i] = ch
    THEN UpperCase[CHOOSE i \in 1..7 : LowerCase[i] = ch]
    ELSE ch

\* str.lower() of a string given as the tuple of its characters.
lower(s) == [i \in 1..Len(s) |-> lowerChar(s[i])]

\* A raised exception, as the value a function yields in place of a square.
ValueError == <<-1, -1>>
IndexError == <<-2, -2>>
IsError(pos) == pos = ValueError \/ pos = IndexError

\* Python list indexing: i in -n..n-1 selects an element, counting from the
\* end when negative; anything else raises IndexError.
InRange(i, n) == -n <= i /\ i < n
PyIdx(i, n) == IF i < 0 THEN i + n ELSE i

\* board[y][x] with Python's index rules (y, x known to be in range).
At(board, y, x) == board[PyIdx(y, 10)][PyIdx(x, 9)]

\* The squares in the order of a row-by-row scan: (0,0), (0,1), ..., (9,8).
AllCells == [i \in 1..90 |-> <<(i - 1) \div 9, (i - 1) % 9>>]

\* list.index(e): 0-based position of the first occurrence.
index(seq, e) == (CHOOSE i \in 1..Len(seq) : seq[i] = e /\ \A j \in 1..(i - 1) : seq[j] # e) - 1

\* sorted() of two squares (tuple order).
TupleLess(a, b) == a[1] < b[1] \/ (a[1] = b[1] /\ a[2] < b[2])

(***************************************************************************)
(* Notation: square -> piece token                                         *)
(***************************************************************************)

\* The rows y (ascending) of column x holding a piece equal to p.
ColumnPieces(board, x, p) ==
    SelectSeq([i \in 1..10 |-> i - 1], LAMBDA y : board[y][x] = p)

\* A token that marks with '+' and with ordinal 1 the piece nearest to its
\* own back rank.
PieceTokenFromBack(piece_type, x, is_red, n, idx) ==
    IF n = 1
    THEN (IF is_red THEN <<piece_type, str(9 - x)>> ELSE <<piece_type, str(x + 1)>>)
    ELSE IF n = 2
    THEN (IF (is_red /\ idx = 1) \/ (~is_red /\ idx = 0)
          THEN <<piece_type, "+">>
          ELSE <<piece_type, "-">>)
    ELSE (IF is_red THEN <<str(n - idx), str(9 - x)>>
                    ELSE <<str(idx + 1), str(x + 1)>>)

\* The token _index_to_wxf forms for a piece of kind piece_type in column x
\* that is number idx (from 0) of the n pieces of its kind and side there.
PieceToken(piece_type, x, is_red, n, idx) ==
    IF n = 1
    THEN (IF is_red THEN <<piece_type, str(9 - x)>> ELSE <<piece_type, str(x + 1)>>)
    ELSE IF n = 2
    THEN (IF (is_red /\ idx = 1) \/ (~is_red /\ idx = 0)
          THEN <<piece_type, "-">>
          ELSE <<piece_type, "+">>)
    ELSE (IF is_red THEN <<str(idx + 1), str(9 - x)>>
                    ELSE <<str(n - idx), str(x + 1)>>)

\* The body of _index_to_wxf once pieces, the rows of column x holding a
\* piece of this kind and side, is built.
TokenAmong(pieces, piece_type, pos, is_red) ==
    PieceToken(piece_type, pos[2], is_red, Len(pieces), index(pieces, pos[1]))

\* _index_to_wxf: the two-character token of the piece on pos.
\* Raises ValueError when the square is empty or holds the other side's piece.
_index_to_wxf(board, pos, is_red) ==
    IF board[pos[1]][pos[2]] = None \/ board[pos[1]][pos[2]].is_red # is_red
    THEN <<"ValueError", "">>
    ELSE TokenAmong(ColumnPieces(board, pos[2],
                                 _Piece(board[pos[1]][pos[2]].kind, is_red)),
                    board[pos[1]][pos[2]].kind, pos, is_red)

\* The rest of _get_wxf_movement once move_start is known.
MoveToken(move_start, start, end, is_red) ==
    LET forward == (is_red /\ end[1] < start[1]) \/ (~is_red /\ end[1] > start[1])
        file == IF is_red THEN str(9 - end[2]) ELSE str(end[2] + 1)
    IN  IF move_start[1] = "ValueError" THEN <<"ValueError", "", "", "">>
        ELSE IF start[1] = end[1] THEN move_start \o <<".", file>>
        ELSE IF start[2] = end[2]
             THEN move_start \o <<(IF forward THEN "+" ELSE "-"), str(abs(end[1] - start[1]))>>
        ELSE move_start \o <<(IF forward THEN "+" ELSE "-"), file>>

\* _get_wxf_movement: the move token of the move from start to end.
_get_wxf_movement(board, start, end, is_red) ==
    MoveToken(_index_to_wxf(board, start, is_red), start, end, is_red)

(***************************************************************************)
(* Notation: piece token -> square, move token -> destination              *)
(***************************************************************************)

\* The squares holding a piece equal to p, in row-by-row scan order.
SideCells(board, p) ==
    SelectSeq(AllCells, LAMBDA c : board[c[1]][c[2]] = p)

\* The pair search of _wxf_to_index_two_aligned over locs, the squares of the
\* pieces of the kind: the pair is the first scanned piece that has another
\* piece on its column, together with the first scanned such other piece;
\* sorted, the upper one (smaller row) is returned if upper, else the lower.
AlignedPair(locs, upper) ==
    LET Mate(i, j) == locs[j] # locs[i] /\ locs[j][2] = locs[i][2]
        HasMate(i) == \E j \in 1..Len(locs) : Mate(i, j)
        First(i) == HasMate(i) /\ \A l \in 1..(i - 1) : ~HasMate(l)
        Second(i, j) == Mate(i, j) /\ \A l \in 1..(j - 1) : ~Mate(i, l)
        Pick(a, b) == IF TupleLess(a, b) = upper THEN a ELSE b
    IN  IF ~\E i \in 1..Len(locs) : HasMate(i) THEN ValueError
        ELSE CHOOSE c \in {locs[i] : i \in 1..Len(locs)} :
                \E i, j \in 1..Len(locs) :
                    First(i) /\ Second(i, j) /\ c = Pick(locs[i], locs[j])

\* _wxf_to_index_two_aligned: token <kind><+|-> of one of two pieces on a file.
_wxf_to_index_two_aligned(board, piece, is_red) ==
    AlignedPair(SideCells(board, _Piece(lower(piece)[1], is_red)),
                (is_red /\ lower(piece)[2] = "+") \/ (~is_red /\ lower(piece)[2] = "-"))

\* The number of occurrences of v in seq.
Count(seq, v) == Cardinality({i \in 1..Len(seq) : seq[i] = v})

\* statistics.mode of a non-empty list: the first value of the highest count.
mode(seq) ==
    seq[CHOOSE i \in 1..Len(seq) :
            /\ \A j \in 1..Len(seq) : Count(seq, seq[j]) <= Count(seq, seq[i])
            /\ \A k \in 1..(i - 1) : Count(seq, seq[k]) < Count(seq, seq[i])]

\* list[i] by Python's rules, for a list of squares.
Item(lst, i) == IF InRange(i, Len(lst)) THEN lst[PyIdx(i, Len(lst)) + 1] ELSE IndexError

\* The part of _wxf_to_index_more_than_three_aligned after the pawns' squares
\* locs are collected: the pawns on the most populated file (sorted, which the
\* scan order already is), indexed by the ordinal n from the front for Red
\* and from the back of the list for Black.
\* statistics.mode raises StatisticsError (a ValueError) on an empty list.
AlignedPawn(locs, m, n, is_red) ==
    IF Len(locs) = 0 THEN ValueError
    ELSE IF Len(SelectSeq(locs, LAMBDA l : l[2] = m)) < 3 THEN ValueError
    ELSE Item(SelectSeq(locs, LAMBDA l : l[2] = m), IF is_red THEN n - 1 ELSE -n)

\* The columns of a list of squares.
Columns(locs) == [i \in 1..Len(locs) |-> locs[i][2]]

\* The mode of the columns of locs (not evaluated when locs is empty).
ModeColumn(locs) == IF Len(locs) = 0 THEN 0 ELSE mode(Columns(locs))

\* The same, with the squares of the side's pawns given.
AlignedAmong(locs, n, is_red) == AlignedPawn(locs, ModeColumn(locs), n, is_red)

\* _wxf_to_index_more_than_three_aligned: token <ordinal><file> of one of
\* three or more pawns on a file.  The file character is not read.
_wxf_to_index_more_than_three_aligned(board, piece, is_red) ==
    AlignedAmong(SideCells(board, _Piece("p", is_red)), int(lower(piece)[1]), is_red)

\* The first row of column x (by Python's index rules) holding a piece equal
\* to p, with the column as given; ValueError if there is none.
FirstInColumn(board, x, p) ==
    IF ~InRange(x, 9) THEN IndexError
    ELSE IF \A y \in 0..9 : At(board, y, x) # p THEN ValueError
    ELSE <<CHOOSE y \in 0..9 : At(board, y, x) = p /\ \A z \in 0..(y - 1) : At(board, z, x) # p,
           x>>

\* _wxf_to_index: the square of the piece a two-character token names.
\* In the <kind><file> form int() raises ValueError on a non-digit and the
\* column index follows Python's rules (9 is out of range, -1 is column 8);
\* the square returned carries the column as computed.
_wxf_to_index(board, piece, is_red) ==
    IF isdigit(lower(piece)[1])
    THEN _wxf_to_index_more_than_three_aligned(board, piece, is_red)
    ELSE IF lower(piece)[2] \in {"+", "-"}
    THEN _wxf_to_index_two_aligned(board, piece, is_red)
    ELSE IF ~isdigit(lower(piece)[2]) THEN ValueError
    ELSE FirstInColumn(board,
                       IF is_red THEN 9 - int(lower(piece)[2]) ELSE int(lower(piece)[2]) - 1,
                       _Piece(lower(piece)[1], is_red))

\* The rest of _get_index_movement once the piece's square <<y, x>> is found:
\* kind is the kind of the piece there, value the number the token ends with.
Destination(y, x, kind, sign, value, is_red) ==
    LET file == IF is_red THEN 9 - value ELSE value - 1
        vert == IF kind = "h" THEN 3 - abs(x - file)
                ELSE IF kind = "e" THEN 2
                ELSE 1
    IN  IF sign = "." THEN <<y, file>>
        ELSE IF kind \in {"r", "k", "c", "p"}
             THEN (IF (is_red /\ sign = "+") \/ (~is_red /\ sign = "-")
                   THEN <<y - value, x>>
                   ELSE <<y + value, x>>)
        ELSE IF kind = "h" /\ is_red
             THEN (IF sign = "+" THEN <<y - vert, file>> ELSE <<y + vert, file>>)
        ELSE IF kind = "h"
             THEN (IF sign = "+" THEN <<y + vert, file>> ELSE <<y - vert, file>>)
        ELSE IF sign = "+" /\ is_red THEN <<y - vert, 9 - value>>
        ELSE IF sign = "-" /\ is_red THEN <<y + vert, 9 - value>>
        ELSE IF sign = "+" /\ ~is_red THEN <<y + vert, value - 1>>
        ELSE <<y - vert, value - 1>>

\* _get_index_movement from the square start that _wxf_to_index gave.
DestinationFrom(board, start, move, is_red) ==
    IF IsError(start) THEN start
    ELSE Destination(start[1], start[2], At(board, start[1], start[2]).kind,
                     move[3], int(move[4]), is_red)

\* _get_index_movement: the destination square of a move token.
_get_index_movement(board, move, is_red) ==
    DestinationFrom(board, _wxf_to_index(board, SubSeq(move, 1, 2), is_red), move, is_red)

(***************************************************************************)
(* Move generator                                                          *)
(*                                                                         *)
(* The source appends _get_wxf_movement(board, pos, (y, x), is_red) for    *)
(* each square (y, x) a piece may move to.  The model lists those squares  *)
(* (the ...Targets operators, in the order of the source) and maps         *)
(* _get_wxf_movement over the list, which gives the same list of tokens    *)
(* since the board does not change while moves are generated.              *)
(***************************************************************************)

\* The tokens of the moves of the piece on pos to the squares ends.
WxfMoves(board, pos, is_red, ends) ==
    [i \in 1..Len(ends) |-> _get_wxf_movement(board, pos, ends[i], is_red)]

\* The inner loop of _find_moves_in_direction that fires a cannon: from step
\* i on, skip empty squares; the first piece met ends the walk, and is a
\* capture if it is an opponent's.
RECURSIVE FireCannon(_, _, _, _, _)
FireCannon(board, pos, is_red, direction, i) ==
    LET y == pos[1] + direction[1] * i
        x == pos[2] + direction[2] * i
    IN  IF ~(0 <= x /\ x <= 8 /\ 0 <= y /\ y <= 9) THEN <<>>
        ELSE IF board[y][x] # None /\ board[y][x].is_red = is_red THEN <<>>
        ELSE IF board[y][x] # None /\ board[y][x].is_red # is_red THEN << <<y, x>> >>
        ELSE FireCannon(board, pos, is_red, direction, i + 1)

\* The while loop of _find_moves_in_direction from step i on.
\* limit is <<>> for None and <<n>> for n; capture is "True", "False" or "None".
RECURSIVE FindMovesFrom(_, _, _, _, _, _, _)
FindMovesFrom(board, pos, is_red, direction, limit, capture, i) ==
    LET y == pos[1] + direction[1] * i
        x == pos[2] + direction[2] * i
    IN  IF x < 0 \/ y < 0 \/ x > 8 \/ y > 9 THEN <<>>
        ELSE IF board[y][x] # None
             THEN (IF board[pos[1]][pos[2]].kind = "c"
                   THEN FireCannon(board, pos, is_red, direction, i + 1)
                   ELSE <<>>)
                  \o (IF board[y][x].is_red # is_red /\ capture # "False"
                      THEN << <<y, x>> >>
                      ELSE <<>>)
        ELSE IF limit # <<>> /\ i + 1 > limit[1] THEN << <<y, x>> >>
        ELSE << <<y, x>> >>
             \o FindMovesFrom(board, pos, is_red, direction, limit, capture, i + 1)

\* The squares of the moves _find_moves_in_direction returns.
DirectionTargets(board, pos, is_red, direction, limit, capture) ==
    FindMovesFrom(board, pos, is_red, direction, limit, capture, 1)

\* _find_moves_in_direction
_find_moves_in_direction(board, pos, is_red, direction, limit, capture) ==
    WxfMoves(board, pos, is_red,
             DirectionTargets(board, pos, is_red, direction, limit, capture))

\* The squares a walk of at most one step (limit=1) in direction d gives.
OneStep(board, pos, d) ==
    DirectionTargets(board, pos, board[pos[1]][pos[2]].is_red, d, <<1>>, "None")

\* The squares a walk without limit in direction d gives.
Slide(board, pos, d, capture) ==
    DirectionTargets(board, pos, board[pos[1]][pos[2]].is_red, d, <<>>, capture)

\* The squares of _calculate_moves_for_chariot.
ChariotTargets(board, pos) ==
    Slide(board, pos, <<1, 0>>, "None") \o Slide(board, pos, <<-1, 0>>, "None")
    \o Slide(board, pos, <<0, 1>>, "None") \o Slide(board, pos, <<0, -1>>, "None")

\* A horse that jumps whether or not its leg is blocked.
HorseWithoutLeg(board, pos) ==
    OneStep(board, pos, <<-2, 1>>) \o OneStep(board, pos, <<-2, -1>>)
    \o OneStep(board, pos, <<2, 1>>) \o OneStep(board, pos, <<2, -1>>)
    \o OneStep(board, pos, <<1, -2>>) \o OneStep(board, pos, <<-1, -2>>)
    \o OneStep(board, pos, <<1, 2>>) \o OneStep(board, pos, <<-1, 2>>)

\* The squares of _calculate_moves_for_horse: each pair of L-moves is tried only if the
\* adjacent square along its 2-step axis (the leg) is on the board and empty.
HorseTargets(board, pos) ==
    (IF pos[1] # 0 /\ board[pos[1] - 1][pos[2]] = None
     THEN OneStep(board, pos, <<-2, 1>>) \o OneStep(board, pos, <<-2, -1>>)
     ELSE <<>>)
    \o (IF pos[1] # 9 /\ board[pos[1] + 1][pos[2]] = None
        THEN OneStep(board, pos, <<2, 1>>) \o OneStep(board, pos, <<2, -1>>)
        ELSE <<>>)
    \o (IF pos[2] # 0 /\ board[pos[1]][pos[2] - 1] = None
        THEN OneStep(board, pos, <<1, -2>>) \o OneStep(board, pos, <<-1, -2>>)
        ELSE <<>>)
    \o (IF pos[2] # 8 /\ board[pos[1]][pos[2] + 1] = None
        THEN OneStep(board, pos, <<1, 2>>) \o OneStep(board, pos, <<-1, 2>>)
        ELSE <<>>)

\* An elephant that is not held back by the river.
ElephantAcrossRiver(board, pos) ==
    (IF pos[1] >= 2
     THEN (IF pos[2] # 0 /\ board[pos[1] - 1][pos[2] - 1] = None
           THEN OneStep(board, pos, <<-2, -2>>) ELSE <<>>)
          \o (IF pos[2] # 8 /\ board[pos[1] - 1][pos[2] + 1] = None
              THEN OneStep(board, pos, <<-2, 2>>) ELSE <<>>)
     ELSE <<>>)
    \o (IF pos[1] <= 7
        THEN (IF pos[2] # 0 /\ board[pos[1] + 1][pos[2] - 1] = None
              THEN OneStep(board, pos, <<2, -2>>) ELSE <<>>)
             \o (IF pos[2] # 8 /\ board[pos[1] + 1][pos[2] + 1] = None
                 THEN OneStep(board, pos, <<2, 2>>) ELSE <<>>)
        ELSE <<>>)

\* The squares of _calculate_moves_for_elephant.
ElephantTargets(board, pos) ==
    (IF pos[1] \notin {0, 5}
     THEN (IF pos[2] # 0 /\ board[pos[1] - 1][pos[2] - 1] = None
           THEN OneStep(board, pos, <<-2, -2>>) ELSE <<>>)
          \o (IF pos[2] # 8 /\ board[pos[1] - 1][pos[2] + 1] = None
              THEN OneStep(board, pos, <<-2, 2>>) ELSE <<>>)
     ELSE <<>>)
    \o (IF pos[1] \notin {4, 9}
        THEN (IF pos[2] # 0 /\ board[pos[1] + 1][pos[2] - 1] = None
              THEN OneStep(board, pos, <<2, -2>>) ELSE <<>>)
             \o (IF pos[2] # 8 /\ board[pos[1] + 1][pos[2] + 1] = None
                 THEN OneStep(board, pos, <<2, 2>>) ELSE <<>>)
        ELSE <<>>)

\* An advisor that steps along any diagonal on the board.
AssistantAnywhere(board, pos) ==
    OneStep(board, pos, <<1, -1>>) \o OneStep(board, pos, <<1, 1>>)
    \o OneStep(board, pos, <<-1, -1>>) \o OneStep(board, pos, <<-1, 1>>)

\* The squares of _calculate_moves_for_assistant.
AssistantTargets(board, pos) ==
    (IF pos[1] \notin {2, 9}
     THEN (IF pos[2] # 3 THEN OneStep(board, pos, <<1, -1>>) ELSE <<>>)
          \o (IF pos[2] # 5 THEN OneStep(board, pos, <<1, 1>>) ELSE <<>>)
     ELSE <<>>)
    \o (IF pos[1] \notin {0, 7}
        THEN (IF pos[2] # 3 THEN OneStep(board, pos, <<-1, -1>>) ELSE <<>>)
             \o (IF pos[2] # 5 THEN OneStep(board, pos, <<-1, 1>>) ELSE <<>>)
        ELSE <<>>)

\* A confront check that looks past the pieces between the kings.
RECURSIVE ConfrontThrough(_, _, _, _)
ConfrontThrough(board, pos, king_row, step) ==
    IF king_row < 0 \/ king_row > 9 THEN <<>>
    ELSE IF board[king_row][pos[2]] # None /\ board[king_row][pos[2]].kind = "k"
         THEN << <<king_row, pos[2]>> >>
              \o ConfrontThrough(board, pos, king_row + step, step)
    ELSE ConfrontThrough(board, pos, king_row + step, step)

\* The confront check of _calculate_moves_for_king from row king_row on,
\* stepping by step (-1 for Red, +1 for Black): every king met on the file
\* adds a move and the scan goes on; any other piece ends it.
RECURSIVE Confront(_, _, _, _)
Confront(board, pos, king_row, step) ==
    IF king_row < 0 \/ king_row > 9 THEN <<>>
    ELSE IF board[king_row][pos[2]] # None /\ board[king_row][pos[2]].kind = "k"
         THEN << <<king_row, pos[2]>> >> \o Confront(board, pos, king_row + step, step)
    ELSE IF board[king_row][pos[2]] # None THEN <<>>
    ELSE Confront(board, pos, king_row + step, step)

\* The one-step palace moves of _calculate_moves_for_king.
KingSteps(board, pos) ==
    (IF pos[1] \notin {2, 9} THEN OneStep(board, pos, <<1, 0>>) ELSE <<>>)
    \o (IF pos[1] \notin {0, 7} THEN OneStep(board, pos, <<-1, 0>>) ELSE <<>>)
    \o (IF pos[2] # 3 THEN OneStep(board, pos, <<0, -1>>) ELSE <<>>)
    \o (IF pos[2] # 5 THEN OneStep(board, pos, <<0, 1>>) ELSE <<>>)

\* The squares of _calculate_moves_for_king.
KingTargets(board, pos) ==
    KingSteps(board, pos)
    \o (IF board[pos[1]][pos[2]].is_red THEN Confront(board, pos, pos[1] - 1, -1)
                                        ELSE Confront(board, pos, pos[1] + 1, 1))

\* A cannon that also captures the first piece it meets, as a chariot does.
CannonCapturingAdjacent(board, pos) ==
    Slide(board, pos, <<1, 0>>, "None") \o Slide(board, pos, <<-1, 0>>, "None")
    \o Slide(board, pos, <<0, 1>>, "None") \o Slide(board, pos, <<0, -1>>, "None")

\* The squares of _calculate_moves_for_cannon.
CannonTargets(board, pos) ==
    Slide(board, pos, <<1, 0>>, "False") \o Slide(board, pos, <<-1, 0>>, "False")
    \o Slide(board, pos, <<0, 1>>, "False") \o Slide(board, pos, <<0, -1>>, "False")

\* Pawn moves in which only a Red pawn steps sideways across the river.
PawnSidewaysForRedOnly(board, pos) ==
    IF board[pos[1]][pos[2]].is_red
    THEN OneStep(board, pos, <<-1, 0>>)
         \o (IF pos[1] <= 4
             THEN OneStep(board, pos, <<0, 1>>) \o OneStep(board, pos, <<0, -1>>)
             ELSE <<>>)
    ELSE OneStep(board, pos, <<1, 0>>)

\* The squares of _calculate_moves_for_pawn.
PawnTargets(board, pos) ==
    IF board[pos[1]][pos[2]].is_red
    THEN OneStep(board, pos, <<-1, 0>>)
         \o (IF pos[1] <= 4
             THEN OneStep(board, pos, <<0, 1>>) \o OneStep(board, pos, <<0, -1>>)
             ELSE <<>>)
    ELSE OneStep(board, pos, <<1, 0>>)
         \o (IF pos[1] >= 5
             THEN OneStep(board, pos, <<0, 1>>) \o OneStep(board, pos, <<0, -1>>)
             ELSE <<>>)

\* The squares the piece on pos may move to, by the same dispatch by kind as
\* MovesOfPiece.
PieceTargets(board, pos) ==
    CASE board[pos[1]][pos[2]].kind = "r" -> ChariotTargets(board, pos)
      [] board[pos[1]][pos[2]].kind = "h" -> HorseTargets(board, pos)
      [] board[pos[1]][pos[2]].kind = "e" -> ElephantTargets(board, pos)
      [] board[pos[1]][pos[2]].kind = "a" -> AssistantTargets(board, pos)
      [] board[pos[1]][pos[2]].kind = "k" -> KingTargets(board, pos)
      [] board[pos[1]][pos[2]].kind = "c" -> CannonTargets(board, pos)
      [] OTHER -> PawnTargets(board, pos)

\* The tokens of the moves of the piece on pos to the squares ends.
PieceMoves(board, pos, ends) ==
    WxfMoves(board, pos, board[pos[1]][pos[2]].is_red, ends)

\* _calculate_moves_for_chariot
_calculate_moves_for_chariot(board, pos) ==
    PieceMoves(board, pos, ChariotTargets(board, pos))

\* _calculate_moves_for_horse
_calculate_moves_for_horse(board, pos) ==
    PieceMoves(board, pos, HorseTargets(board, pos))

\* _calculate_moves_for_elephant
_calculate_moves_for_elephant(board, pos) ==
    PieceMoves(board, pos, ElephantTargets(board, pos))

\* _calculate_moves_for_assistant
_calculate_moves_for_assistant(board, pos) ==
    PieceMoves(board, pos, AssistantTargets(board, pos))

\* _calculate_moves_for_king
_calculate_moves_for_king(board, pos) ==
    PieceMoves(board, pos, KingTargets(board, pos))

\* _calculate_moves_for_cannon
_calculate_moves_for_cannon(board, pos) ==
    PieceMoves(board, pos, CannonTargets(board, pos))

\* _calculate_moves_for_pawn
_calculate_moves_for_pawn(board, pos) ==
    PieceMoves(board, pos, PawnTargets(board, pos))

\* The dispatch by kind of _calculate_moves_for_board for the piece on pos.
MovesOfPiece(board, pos) ==
    CASE board[pos[1]][pos[2]].kind = "r" -> _calculate_moves_for_chariot(board, pos)
      [] board[pos[1]][pos[2]].kind = "h" -> _calculate_moves_for_horse(board, pos)
      [] board[pos[1]][pos[2]].kind = "e" -> _calculate_moves_for_elephant(board, pos)
      [] board[pos[1]][pos[2]].kind = "a" -> _calculate_moves_for_assistant(board, pos)
      [] board[pos[1]][pos[2]].kind = "k" -> _calculate_moves_for_king(board, pos)
      [] board[pos[1]][pos[2]].kind = "c" -> _calculate_moves_for_cannon(board, pos)
      [] OTHER -> _calculate_moves_for_pawn(board, pos)

\* The squares _calculate_moves_for_board does not skip: those holding a
\* piece of the active side, in scan order.
ActiveCells(board, is_red_active) ==
    SelectSeq(AllCells, LAMBDA pos :
        /\ board[pos[1]][pos[2]] # None
        /\ board[pos[1]][pos[2]].is_red = is_red_active)

\* The loop of _calculate_moves_for_board over the squares cells[lo..hi],
\* in order.  The range is halved so that the evaluation stays shallow.
RECURSIVE MovesFromCell(_, _, _, _)
MovesFromCell(board, cells, lo, hi) ==
    IF lo > hi THEN <<>>
    ELSE IF lo = hi THEN MovesOfPiece(board, cells[lo])
    ELSE MovesFromCell(board, cells, lo, (lo + hi) \div 2)
         \o MovesFromCell(board, cells, (lo + hi) \div 2 + 1, hi)

\* _calculate_moves_for_board: all moves of the active side, in scan order.
_calculate_moves_for_board(board, is_red_active) ==
    MovesFromCell(board, ActiveCells(board, is_red_active), 1,
                  Len(ActiveCells(board, is_red_active)))

(***************************************************************************)
(* ChessGame objects                                                       *)
(*                                                                         *)
(* A board is a mutable list of lists: the model keeps boards in a heap    *)
(* and a ChessGame holds the reference of its board, so that two games     *)
(* sharing one board object would show.  Pieces are never mutated.         *)
(***************************************************************************)

BoardRefs == {1, 2, 3}

\* A fresh board object: the least reference not in use.
NewRef(heap) == CHOOSE r \in BoardRefs \ DOMAIN heap : \A q \in BoardRefs \ DOMAIN heap : r <= q

\* The heap with the board b stored under reference r.
Store(heap, r, b) == [q \in (DOMAIN heap) \cup {r} |-> IF q = r THEN b ELSE heap[q]]

\* Reference counting: only the boards some game refers to stay allocated.
Collect(heap, roots) == [q \in (DOMAIN heap) \cap roots |-> heap[q]]

\* The place of a game object not created yet.
NoGame == [_board |-> 0, _valid_moves |-> <<>>, _is_red_active |-> FALSE, _move_count |-> 0]

\* x in lst
In(x, lst) == \E i \in 1..Len(lst) : lst[i] = x

\* A _recalculate_valid_moves that keeps the list the game already holds.
StaleValidMoves(heap, self) == self

\* _recalculate_valid_moves
_recalculate_valid_moves(heap, self) ==
    [self EXCEPT !._valid_moves =
        _calculate_moves_for_board(heap[self._board], self._is_red_active)]

\* ChessGame.__init__ given the reference of a board.
__init__(heap, board, red_active, move_count) ==
    _recalculate_valid_moves(heap,
        [_board |-> board, _valid_moves |-> <<>>,
         _is_red_active |-> red_active, _move_count |-> move_count])

\* The two assignments of _board_after_move on the board object under
\* reference board_copy, indexed by Python's rules:
\*   board_copy[end][..] = board_copy[start][..];  board_copy[start][..] = None
\* Yields [heap, board (the reference returned), raised].
MovePiece(heap, board_copy, start_pos, end_pos) ==
    IF start_pos = ValueError \/ (~IsError(start_pos) /\ end_pos = ValueError)
    THEN [heap |-> heap, board |-> 0, raised |-> "ValueError"]
    ELSE IF \/ IsError(start_pos) \/ IsError(end_pos)
            \/ ~InRange(end_pos[1], 10) \/ ~InRange(end_pos[2], 9)
    THEN [heap |-> heap, board |-> 0, raised |-> "IndexError"]
    ELSE [heap |-> [heap EXCEPT
                      ![board_copy][PyIdx(end_pos[1], 10)][PyIdx(end_pos[2], 9)] =
                          heap[board_copy][PyIdx(start_pos[1], 10)][PyIdx(start_pos[2], 9)],
                      ![board_copy][PyIdx(start_pos[1], 10)][PyIdx(start_pos[2], 9)] = None],
          board |-> board_copy, raised |-> ""]

\* A copy that is the board object itself, not a new one.
SameObject(heap, board) == [heap |-> heap, board |-> board]

\* copy.deepcopy(board): a new board object with the same contents.
\* Yields [heap, board (the reference of the copy)].
deepcopy(heap, board) ==
    [heap |-> Store(heap, NewRef(heap), heap[board]), board |-> NewRef(heap)]

\* _board_after_move with the copy made: the squares are looked up on
\* self._board, the piece is moved in the copy.
MoveInCopy(copied, self, move, is_red) ==
    MovePiece(copied.heap, copied.board,
              _wxf_to_index(copied.heap[self._board], SubSeq(move, 1, 2), is_red),
              _get_index_movement(copied.heap[self._board], move, is_red))

\* _board_after_move: deep-copies self._board, moves the piece of the token
\* in the copy and returns the copy.
_board_after_move(heap, self, move, is_red) ==
    MoveInCopy(deepcopy(heap, self._board), self, move, is_red)

\* The assignments of make_move once the board after the move is built.
Moved(self, after) ==
    IF after.raised # ""
    THEN [heap |-> after.heap, self |-> self, raised |-> after.raised]
    ELSE [heap |-> after.heap,
          self |-> _recalculate_valid_moves(after.heap,
                      [self EXCEPT !._board = after.board,
                                   !._is_red_active = ~self._is_red_active,
                                   !._move_count = self._move_count + 1]),
          raised |-> ""]

\* A make_move without the test of the move against the legal list.
UncheckedMakeMove(heap, self, move) ==
    Moved(self, _board_after_move(heap, self, lower(move), self._is_red_active))

\* ChessGame.make_move.  Yields [heap, self, raised].
make_move(heap, self, move) ==
    IF ~In(lower(move), self._valid_moves)
    THEN [heap |-> heap, self |-> self, raised |-> "ValueError"]
    ELSE Moved(self, _board_after_move(heap, self, lower(move), self._is_red_active))

\* The return of copy_and_make_move once the board after the move is built.
Copied(self, after) ==
    IF after.raised # ""
    THEN [heap |-> after.heap, self |-> self, ret |-> NoGame, raised |-> after.raised]
    ELSE [heap |-> after.heap, self |-> self,
          ret |-> __init__(after.heap, after.board,
                           ~self._is_red_active, self._move_count + 1),
          raised |-> ""]

\* ChessGame.copy_and_make_move.  Yields [heap, self, ret, raised]; ret is
\* the game returned.
copy_and_make_move(heap, self, move) ==
    IF ~In(move, self._valid_moves)
    THEN [heap |-> heap, self |-> self, ret |-> NoGame, raised |-> "ValueError"]
    ELSE Copied(self, _board_after_move(heap, self, move, self._is_red_active))

\* ChessGame.get_valid_moves
get_valid_moves(self) == self._valid_moves

\* Whether the board holds a piece equal to p.
Holds(board, p) == \E y \in 0..9 : \E x \in 0..8 : board[y][x] = p

\* ChessGame.get_winner; "None" stands for Python's None.
get_winner(heap, self) ==
    IF self._move_count >= _MAX_MOVES THEN "Draw"
    ELSE IF ~Holds(heap[self._board], _Piece("k", TRUE)) THEN "Black"
    ELSE IF ~Holds(heap[self._board], _Piece("k", FALSE)) THEN "Red"
    ELSE "None"

(***************************************************************************)
(* The evaluation of a board                                               *)
(***************************************************************************)

\* The side factor of the piece on pos: 1 for Red, -1 for Black.
Side(board, pos) == IF board[pos[1]][pos[2]].is_red THEN 1 ELSE -1

\* _absolute_pawn: 200 past the river, 100 before it.
_absolute_pawn(board, pos) ==
    IF \/ (board[pos[1]][pos[2]].is_red /\ pos[1] <= 4)
       \/ (~board[pos[1]][pos[2]].is_red /\ pos[1] >= 5)
    THEN 200 * Side(board, pos)
    ELSE 100 * Side(board, pos)

\* A horse evaluation that gives the two bonuses to Red's horses only.
HorseBonusForRedOnly(board, pos) ==
    Side(board, pos) * 400
    + (IF pos[1] = 1 /\ pos[2] \in {2, 6} /\ Side(board, pos) = 1 THEN 70 ELSE 0)
    + (IF pos[1] = 2 /\ pos[2] \in {3, 5} /\ Side(board, pos) = 1 THEN 30 ELSE 0)

\* _absolute_horse: 400, with the barn and palace-corner bonuses.
_absolute_horse(board, pos) ==
    Side(board, pos) * 400
    + (IF pos[1] = 1 /\ pos[2] \in {2, 6} /\ Side(board, pos) = 1 THEN 70
       ELSE IF pos[1] = 8 /\ pos[2] \in {2, 6} /\ Side(board, pos) = -1 THEN -70
       ELSE 0)
    + (IF pos[1] = 2 /\ pos[2] \in {3, 5} /\ Side(board, pos) = 1 THEN 30
       ELSE IF pos[1] = 7 /\ pos[2] \in {3, 5} /\ Side(board, pos) = -1 THEN -30
       ELSE 0)

\* _absolute_elephant: 200, with the on-guard bonus and off-guard penalty.
_absolute_elephant(board, pos) ==
    Side(board, pos) * 200
    + (IF pos[1] = 7 /\ pos[2] = 4 /\ Side(board, pos) = 1 THEN 20
       ELSE IF pos[1] = 2 /\ pos[2] = 4 /\ Side(board, pos) = -1 THEN -20
       ELSE 0)
    + (IF pos[1] = 7 /\ pos[2] \in {0, 8} /\ Side(board, pos) = 1 THEN -10
       ELSE IF pos[1] = 2 /\ pos[2] \in {0, 8} /\ Side(board, pos) = -1 THEN 10
       ELSE 0)

\* _absolute_cannon: 450, with the middle and back-end bonuses.
_absolute_cannon(board, pos) ==
    Side(board, pos) * 450
    + (IF pos[2] = 4 /\ pos[1] \in {3, 4, 5} /\ Side(board, pos) = 1 THEN 60
       ELSE IF pos[2] = 4 /\ pos[1] \in {4, 5, 6} /\ Side(board, pos) = -1 THEN -60
       ELSE 0)
    + (IF pos[1] = 0 /\ pos[2] \in {0, 1, 7, 8} /\ Side(board, pos) = 1 THEN 30
       ELSE IF pos[1] = 9 /\ pos[2] \in {0, 1, 7, 8} /\ Side(board, pos) = -1 THEN -30
       ELSE 0)

\* _absolute_king: 10000, with the penalty for leaving the bottom line.
_absolute_king(board, pos) ==
    Side(board, pos) * 10000
    + (IF pos[1] \in {7, 8} /\ Side(board, pos) = 1 THEN -10
       ELSE IF pos[1] \in {1, 2} /\ Side(board, pos) = -1 THEN 10
       ELSE 0)

\* _absolute_chariot: 900, with the penalty for the home corner.
_absolute_chariot(board, pos) ==
    Side(board, pos) * 900
    + (IF pos[1] = 9 /\ pos[2] \in {0, 8} /\ Side(board, pos) = 1 THEN -10
       ELSE IF pos[1] = 0 /\ pos[2] \in {0, 8} /\ Side(board, pos) = -1 THEN 10
       ELSE 0)

\* _absolute_advisor: 200, with the off-guard penalty.
_absolute_advisor(board, pos) ==
    Side(board, pos) * 200
    + (IF pos[1] = 7 /\ pos[2] \in {3, 5} /\ Side(board, pos) = 1 THEN -10
       ELSE IF pos[1] = 2 /\ pos[2] \in {3, 5} /\ Side(board, pos) = -1 THEN 10
       ELSE 0)

\* The branch of calculate_absolute_points for the piece on pos.
PointsOfPiece(board, pos) ==
    CASE board[pos[1]][pos[2]].kind = "p" -> _absolute_pawn(board, pos)
      [] board[pos[1]][pos[2]].kind = "h" -> _absolute_horse(board, pos)
      [] board[pos[1]][pos[2]].kind = "e" -> _absolute_elephant(board, pos)
      [] board[pos[1]][pos[2]].kind = "c" -> _absolute_cannon(board, pos)
      [] board[pos[1]][pos[2]].kind = "r" -> _absolute_chariot(board, pos)
      [] board[pos[1]][pos[2]].kind = "k" -> _absolute_king(board, pos)
      [] OTHER -> _absolute_advisor(board, pos)

\* The squares calculate_absolute_points does not skip, in scan order.
OccupiedCells(board) ==
    SelectSeq(AllCells, LAMBDA pos : board[pos[1]][pos[2]] # None)

\* The loop of calculate_absolute_points over the squares cells[lo..hi].
\* The range is halved so that the evaluation stays shallow.
RECURSIVE PointsFromCell(_, _, _, _)
PointsFromCell(board, cells, lo, hi) ==
    IF lo > hi THEN 0
    ELSE IF lo = hi THEN PointsOfPiece(board, cells[lo])
    ELSE PointsFromCell(board, cells, lo, (lo + hi) \div 2)
         + PointsFromCell(board, cells, (lo + hi) \div 2 + 1, hi)

\* calculate_absolute_points: Red's pieces count positive, Black's negative.
calculate_absolute_points(board) ==
    PointsFromCell(board, OccupiedCells(board), 1, Len(OccupiedCells(board)))

(***************************************************************************)
(* Python numbers and lists used by the game tree                          *)
(*                                                                         *)
(* A float is kept as the exact fraction <<n, d>> in lowest terms, d > 0.  *)
(* The estimates compared by the program are computed by one expression    *)
(* from the same operands, so that rounding never separates two of them.   *)
(***************************************************************************)

\* The elements of a list.
Range(lst) == {lst[i] : i \in 1..Len(lst)}

RECURSIVE GCD(_, _)
GCD(a, b) == IF b = 0 THEN a ELSE GCD(b, a % b)

\* The float n / d.
Float(n, d) ==
    IF n = 0 THEN <<0, 1>> ELSE <<n \div GCD(abs(n), d), d \div GCD(abs(n), d)>>

\* a < b on floats.
Less(a, b) == a[1] * b[2] < b[1] * a[2]

\* a + b on floats.
Plus(a, b) == Float(a[1] * b[2] + b[1] * a[2], a[2] * b[2])

\* A rounding down in place of math.ceil.
floor(x) == x[1] \div x[2]

\* math.ceil(x)
ceil(x) == -((-x[1]) \div x[2])

\* max and min of two integers.
max(a, b) == IF a >= b THEN a ELSE b
min(a, b) == IF a <= b THEN a ELSE b

\* max(lst) and min(lst) on a non-empty list of floats.
MaxFloat(lst) == CHOOSE v \in Range(lst) : \A w \in Range(lst) : ~Less(v, w)
MinFloat(lst) == CHOOSE v \in Range(lst) : \A w \in Range(lst) : ~Less(w, v)

\* list.remove(x): the list without its first element equal to x.
Remove(lst, x) ==
    SubSeq(lst, 1, index(lst, x)) \o SubSeq(lst, index(lst, x) + 2, Len(lst))

\* sorted(lst, reverse=True) on floats: place i holds the value that fewer
\* than i elements are above and at least i elements are not below.
sorted(lst) ==
    [i \in 1..Len(lst) |->
        CHOOSE v \in Range(lst) :
            /\ Cardinality({j \in 1..Len(lst) : Less(v, lst[j])}) < i
            /\ i <= Cardinality({j \in 1..Len(lst) : ~Less(lst[j], v)})]

\* sum(lst) on floats.  The floats are exact, so the order of the additions
\* does not matter, and the list is halved so that the evaluation stays
\* shallow.
RECURSIVE sum(_)
sum(lst) ==
    IF lst = <<>> THEN Float(0, 1)
    ELSE IF Len(lst) = 1 THEN lst[1]
    ELSE Plus(sum(SubSeq(lst, 1, Len(lst) \div 2)),
              sum(SubSeq(lst, Len(lst) \div 2 + 1, Len(lst))))

(***************************************************************************)
(* GameTree objects                                                        *)
(*                                                                         *)
(* Trees are mutable and shared: merge_with and add_subtree hand a tree    *)
(* object to a second parent.  The model keeps the tree objects in a list  *)
(* objs; a reference is a position in it, and _subtrees lists references.  *)
(***************************************************************************)

GAME_START_MOVE == <<"*">>

\* ESTIMATION = 0.8
ESTIMATION == Float(4, 5)

\* Python's None where a tree is expected.
NoTree == 0

\* The reference the next GameTree(...) gets.
New(objs) == Len(objs) + 1

\* GameTree.__init__: the objects with the new tree appended.
GameTree(objs, move, is_red_move, relative_points, red_win_probability, black_win_probability) ==
    Append(objs, [move |-> move, is_red_move |-> is_red_move,
                  red_win_probability |-> red_win_probability,
                  black_win_probability |-> black_win_probability,
                  relative_points |-> relative_points, _subtrees |-> <<>>])

\* GameTree.get_subtrees
get_subtrees(objs, self) == objs[self]._subtrees

\* The red and black win probabilities of the subtrees of self, in order.
RedChances(objs, self) ==
    [i \in 1..Len(objs[self]._subtrees) |->
        objs[objs[self]._subtrees[i]].red_win_probability]
BlackChances(objs, self) ==
    [i \in 1..Len(objs[self]._subtrees) |->
        objs[objs[self]._subtrees[i]].black_win_probability]

\* The relative points of the subtrees of self.
SubtreePoints(objs, self) ==
    {objs[objs[self]._subtrees[i]].relative_points : i \in 1..Len(objs[self]._subtrees)}

\* max(...) and min(...) over a non-empty set of integers.
MaxOf(S) == CHOOSE v \in S : \A w \in S : w <= v
MinOf(S) == CHOOSE v \in S : \A w \in S : v <= w

\* GameTree.find_subtree_by_move: the first subtree with the move, or None.
find_subtree_by_move(objs, self, move) ==
    IF \E i \in 1..Len(objs[self]._subtrees) : objs[objs[self]._subtrees[i]].move = move
    THEN objs[self]._subtrees[
             CHOOSE i \in 1..Len(objs[self]._subtrees) :
                 /\ objs[objs[self]._subtrees[i]].move = move
                 /\ \A j \in 1..(i - 1) : objs[objs[self]._subtrees[j]].move # move]
    ELSE NoTree

\* An estimate that is the sum of the top chances, not their average.
TopSum(chances, half_len) == sum(SubSeq(sorted(chances), 1, half_len))

\* The average of the top ESTIMATION of the chances:
\*   half_len = math.ceil(len(chances) * ESTIMATION)
\*   sum(sorted(chances, reverse=True)[:half_len]) / half_len
TopAverage(chances, half_len) ==
    Float(sum(SubSeq(sorted(chances), 1, half_len))[1],
          sum(SubSeq(sorted(chances), 1, half_len))[2] * half_len)

\* GameTree._update_win_probabilities
_update_win_probabilities(objs, self) ==
    IF objs[self]._subtrees = <<>> THEN objs
    ELSE IF objs[self].is_red_move
    THEN [objs EXCEPT
            ![self].red_win_probability = MaxFloat(RedChances(objs, self)),
            ![self].black_win_probability =
                TopAverage(BlackChances(objs, self),
                           ceil(Float(Len(objs[self]._subtrees) * ESTIMATION[1],
                                      ESTIMATION[2])))]
    ELSE [objs EXCEPT
            ![self].black_win_probability = MaxFloat(BlackChances(objs, self)),
            ![self].red_win_probability =
                TopAverage(RedChances(objs, self),
                           ceil(Float(Len(objs[self]._subtrees) * ESTIMATION[1],
                                      ESTIMATION[2])))]

\* GameTree.add_subtree
add_subtree(objs, self, subtree) ==
    _update_win_probabilities(
        [objs EXCEPT ![self]._subtrees = Append(@, subtree)], self)

\* GameTree.clean_subtrees
clean_subtrees(objs, self) == [objs EXCEPT ![self]._subtrees = <<>>]

RECURSIVE clean_depth_subtrees(_, _, _)

\* The loop of clean_depth_subtrees from the i-th subtree on:
\*   for subtree in self._subtrees: subtree.clean_depth_subtrees(depth - 1)
RECURSIVE CleanDepthFrom(_, _, _, _)
CleanDepthFrom(objs, self, depth, i) ==
    IF i > Len(objs[self]._subtrees) THEN objs
    ELSE CleanDepthFrom(clean_depth_subtrees(objs, objs[self]._subtrees[i], depth - 1),
                        self, depth, i + 1)

\* A truncation that removes the subtrees of self whatever the depth.
clean_at_root(objs, self, depth) == clean_subtrees(objs, self)

\* GameTree.clean_depth_subtrees
clean_depth_subtrees(objs, self, depth) ==
    IF depth = 1 THEN clean_subtrees(objs, self)
    ELSE CleanDepthFrom(objs, self, depth, 1)

\* GameTree.get_height
RECURSIVE get_height(_, _, _)
get_height(objs, self, curr_depth) ==
    IF objs[self]._subtrees = <<>> THEN curr_depth
    ELSE MaxOf({get_height(objs, objs[self]._subtrees[i], curr_depth + 1) :
                    i \in 1..Len(objs[self]._subtrees)})

\* GameTree.insert_move_index: an existing subtree with the move is descended
\* into; otherwise a subtree of the other side is added and descended into.
RECURSIVE insert_move_index(_, _, _, _, _, _, _)
insert_move_index(objs, self, curr_index, moves, points, red_win_probability, black_win_probability) ==
    IF curr_index = Len(moves) THEN objs
    ELSE IF find_subtree_by_move(objs, self, moves[curr_index + 1]) # NoTree
    THEN _update_win_probabilities(
             insert_move_index(objs,
                 find_subtree_by_move(objs, self, moves[curr_index + 1]),
                 curr_index + 1, moves, points,
                 red_win_probability, black_win_probability),
             self)
    ELSE _update_win_probabilities(
             insert_move_index(
                 add_subtree(GameTree(objs, moves[curr_index + 1],
                                      ~objs[self].is_red_move, points[curr_index + 1],
                                      red_win_probability, black_win_probability),
                             self, New(objs)),
                 New(objs), curr_index + 1, moves, points,
                 red_win_probability, black_win_probability),
             self)

\* An insertion that stops after the first of the moves.
insert_first_move(objs, self, moves, points, red_win_probability, black_win_probability) ==
    IF moves = <<>> THEN objs
    ELSE IF find_subtree_by_move(objs, self, moves[1]) # NoTree THEN objs
    ELSE add_subtree(GameTree(objs, moves[1], ~objs[self].is_red_move, points[1],
                              red_win_probability, black_win_probability),
                     self, New(objs))

\* GameTree.insert_move_sequence
insert_move_sequence(objs, self, moves, points, red_win_probability, black_win_probability) ==
    insert_move_index(objs, self, 0, moves, points,
                      red_win_probability, black_win_probability)

\* The body of the loop of reevaluate once subtree is re-evaluated: a
\* subtree that is not a leaf gets its probabilities from its subtrees and
\* the best relative points among them for the side to move.
Recalculated(objs, subtree) ==
    IF objs[subtree]._subtrees = <<>> THEN objs
    ELSE [_update_win_probabilities(objs, subtree) EXCEPT
            ![subtree].relative_points =
                IF objs[subtree].is_red_move
                THEN MaxOf(SubtreePoints(objs, subtree))
                ELSE MinOf(SubtreePoints(objs, subtree))]

RECURSIVE merge_with(_, _, _)
RECURSIVE reevaluate(_, _)

\* The loop of purge from position i of the list self._subtrees as it is
\* then: a subtree whose move was seen is removed from the list and merged
\* into the first subtree with that move, and the loop goes on at position
\* i + 1 of the shortened list.
RECURSIVE PurgeFrom(_, _, _, _)
PurgeFrom(objs, self, i, moves_so_far) ==
    IF i > Len(objs[self]._subtrees) THEN objs
    ELSE IF In(objs[objs[self]._subtrees[i]].move, moves_so_far)
    THEN PurgeFrom(
             merge_with([objs EXCEPT ![self]._subtrees = Remove(@, objs[self]._subtrees[i])],
                        find_subtree_by_move(
                            [objs EXCEPT ![self]._subtrees = Remove(@, objs[self]._subtrees[i])],
                            self, objs[objs[self]._subtrees[i]].move),
                        objs[self]._subtrees[i]),
             self, i + 1, moves_so_far)
    ELSE PurgeFrom(objs, self, i + 1,
                   Append(moves_so_far, objs[objs[self]._subtrees[i]].move))

\* GameTree.purge
purge(objs, self) == PurgeFrom(objs, self, 1, <<>>)

\* The loop of reevaluate over the subtrees of self from position i.
RECURSIVE ReevaluateFrom(_, _, _)
ReevaluateFrom(objs, self, i) ==
    IF i > Len(objs[self]._subtrees) THEN objs
    ELSE ReevaluateFrom(
             Recalculated(reevaluate(objs, objs[self]._subtrees[i]),
                          objs[self]._subtrees[i]),
             self, i + 1)

\* GameTree.reevaluate: the fields of self itself are not recalculated.
reevaluate(objs, self) == ReevaluateFrom(purge(objs, self), self, 1)

\* The loop of merge_with over the subtrees of other_tree from position i;
\* subtrees_moves is the list of moves taken before the loop.
RECURSIVE MergeFrom(_, _, _, _, _)
MergeFrom(objs, self, other_tree, subtrees_moves, i) ==
    IF i > Len(objs[other_tree]._subtrees) THEN objs
    ELSE IF In(objs[objs[other_tree]._subtrees[i]].move, subtrees_moves)
    THEN MergeFrom(
             merge_with(objs,
                 objs[self]._subtrees[
                     index(subtrees_moves, objs[objs[other_tree]._subtrees[i]].move) + 1],
                 objs[other_tree]._subtrees[i]),
             self, other_tree, subtrees_moves, i + 1)
    ELSE MergeFrom(add_subtree(objs, self, objs[other_tree]._subtrees[i]),
                   self, other_tree, subtrees_moves, i + 1)

\* GameTree.merge_with, for trees with the same move (the assertion): the
\* subtrees of other_tree self lacks become subtrees of self as they are,
\* the same objects.
merge_with(objs, self, other_tree) ==
    reevaluate(
        MergeFrom(objs, self, other_tree,
                  [i \in 1..Len(objs[self]._subtrees) |->
                       objs[objs[self]._subtrees[i]].move],
                  1),
        self)

(***************************************************************************)
(* Game trees in XML files                                                 *)
(***************************************************************************)

\* str(n) of an integer n >= 0, as the list of its digits.
RECURSIVE DigitsOf(_)
DigitsOf(n) == IF n < 10 THEN <<str(n)>> ELSE Append(DigitsOf(n \div 10), str(n % 10))

\* str(n) of an integer.
StrInt(n) == IF n < 0 THEN <<"-">> \o DigitsOf(-n) ELSE DigitsOf(n)

\* int(s) of a list of digits.
RECURSIVE ValueOf(_)
ValueOf(s) ==
    IF s = <<>> THEN 0 ELSE 10 * ValueOf(SubSeq(s, 1, Len(s) - 1)) + int(s[Len(s)])

\* int(s) of a string written by str(n).
IntStr(s) == IF Head(s) = "-" THEN -ValueOf(Tail(s)) ELSE ValueOf(s)

\* str(x) of a float is the shortest decimal that reads back as x, and
\* float(s) reads it back: the text is kept as the float it denotes.
StrFloat(x) == [repr |-> x]
float(s) == s.repr

\* bool_dict = {True: 't', False: 'f'}
bool_dict(b) == IF b THEN "t" ELSE "f"

\* The attributes tree_to_xml and _build_e_tree write for a tree.
Attributes(tree) ==
    [m |-> tree.move, i |-> bool_dict(tree.is_red_move),
     p |-> StrInt(tree.relative_points),
     r |-> StrFloat(tree.red_win_probability),
     b |-> StrFloat(tree.black_win_probability)]

RECURSIVE _build_e_tree(_, _)

\* The loop of _build_e_tree over the subtrees of tree from position k: the
\* element of each with, below it, the elements of its own subtrees.
RECURSIVE ElementsFrom(_, _, _)
ElementsFrom(objs, tree, k) ==
    IF k > Len(objs[tree]._subtrees) THEN <<>>
    ELSE <<[attrib |-> Attributes(objs[objs[tree]._subtrees[k]]),
            children |-> _build_e_tree(objs, objs[tree]._subtrees[k])]>>
         \o ElementsFrom(objs, tree, k + 1)

\* _build_e_tree: the elements of the subtrees of tree, in order.
_build_e_tree(objs, tree) == ElementsFrom(objs, tree, 1)

\* tree_to_xml: the file written, as the element of the root move.
tree_to_xml(objs, tree) ==
    [attrib |-> Attributes(objs[tree]), children |-> _build_e_tree(objs, tree)]

RECURSIVE _build_game_tree(_, _, _)

\* The loop of _build_game_tree over the child elements lo..hi, in order:
\* a new tree is built from the child and added with add_subtree.  The
\* tree is one of the objects, so the second test never holds: it settles
\* the objects left by the earlier rounds before the later ones run.
RECURSIVE BuildFrom(_, _, _, _, _)
BuildFrom(objs, move, tree, lo, hi) ==
    IF lo > hi \/ tree > Len(objs) THEN objs
    ELSE IF lo = hi
    THEN add_subtree(
             _build_game_tree(
                 GameTree(objs, GAME_START_MOVE, TRUE, 0, Float(0, 1), Float(0, 1)),
                 move.children[lo], New(objs)),
             tree, New(objs))
    ELSE BuildFrom(BuildFrom(objs, move, tree, lo, (lo + hi) \div 2),
                   move, tree, (lo + hi) \div 2 + 1, hi)

\* _build_game_tree: the fields of tree are read from the element, then
\* the subtrees are built.
_build_game_tree(objs, move, tree) ==
    BuildFrom([objs EXCEPT ![tree].move = move.attrib.m,
                           ![tree].is_red_move = (move.attrib.i = "t"),
                           ![tree].relative_points = IntStr(move.attrib.p),
                           ![tree].red_win_probability = float(move.attrib.r),
                           ![tree].black_win_probability = float(move.attrib.b)],
              move, tree, 1, Len(move.children))

\* xml_to_tree.  Yields [objs, tree (the reference of the tree read)].
xml_to_tree(objs, file) ==
    [objs |-> _build_game_tree(
                  GameTree(objs, GAME_START_MOVE, TRUE, 0, Float(0, 1), Float(0, 1)),
                  file, New(objs)),
     tree |-> New(objs)]

(***************************************************************************)
(* ExploringPlayer                                                         *)
(*                                                                         *)
(* A search yields [objs, value, raised]: the tree objects after it, the   *)
(* value returned and the exception that ended it, if any.                 *)
(***************************************************************************)

PROCESSES == 9

\* +- 1000000 stand for +- infinity in the search.
Infinity == 1000000

\* The bonus per remaining depth of a finished game.
Incentive == 5000

\* A cutoff that ends the loop after the first move whatever the window.
CutoffAlways(is_red, alpha, beta) == TRUE

\* The test that ends the loop over the moves: alpha >= beta when Red is to
\* move (beta cutoff), beta <= alpha when Black is (alpha cutoff).
Cutoff(is_red, alpha, beta) == IF is_red THEN alpha >= beta ELSE beta <= alpha

\* The branches of _alpha_beta that end the recursion: a finished game sets
\* the win probabilities of the tree by the winner and is worth the points
\* of the board plus depth * 5000 * side; at depth 0 the points of the board.
Evaluated(objs, heap, game, tree, depth) ==
    CASE get_winner(heap, game) = "Red" ->
           [objs |-> [objs EXCEPT
                        ![tree].red_win_probability = Float(1, 1),
                        ![tree].black_win_probability = Float(0, 1),
                        ![tree].relative_points =
                            calculate_absolute_points(heap[game._board]) + depth * Incentive * 1],
            value |-> calculate_absolute_points(heap[game._board]) + depth * Incentive * 1,
            raised |-> ""]
      [] get_winner(heap, game) = "Black" ->
           [objs |-> [objs EXCEPT
                        ![tree].black_win_probability = Float(1, 1),
                        ![tree].red_win_probability = Float(0, 1),
                        ![tree].relative_points =
                            calculate_absolute_points(heap[game._board]) + depth * Incentive * (-1)],
            value |-> calculate_absolute_points(heap[game._board]) + depth * Incentive * (-1),
            raised |-> ""]
      [] get_winner(heap, game) = "Draw" ->
           [objs |-> [objs EXCEPT
                        ![tree].red_win_probability = Float(0, 1),
                        ![tree].black_win_probability = Float(0, 1),
                        ![tree].relative_points =
                            calculate_absolute_points(heap[game._board]) + depth * Incentive * 0],
            value |-> calculate_absolute_points(heap[game._board]) + depth * Incentive * 0,
            raised |-> ""]
      [] OTHER ->
           [objs |-> [objs EXCEPT ![tree].relative_points =
                                      calculate_absolute_points(heap[game._board])],
            value |-> calculate_absolute_points(heap[game._board]),
            raised |-> ""]

RECURSIVE _alpha_beta(_, _, _, _, _, _, _)

\* The search below the move: _alpha_beta on game_after_move, the game
\* returned by copy_and_make_move, which only that call refers to.
Below(objs, after, subtree, depth, alpha, beta) ==
    IF after.raised # ""
    THEN [objs |-> objs, value |-> 0, raised |-> after.raised]
    ELSE _alpha_beta(objs, Collect(after.heap, {after.ret._board}), after.ret,
                     subtree, depth - 1, alpha, beta)

\* The variables of the loop over the moves before its first round: the
\* running value starts at -1000000 for Red and 1000000 for Black; done
\* tells that the loop was left by break or by an exception.
Started(objs, is_red, alpha, beta, files) ==
    [objs |-> objs, value |-> IF is_red THEN -Infinity ELSE Infinity,
     alpha |-> alpha, beta |-> beta, files |-> files, done |-> FALSE, raised |-> ""]

\* The variables of the loop after the round whose search returned rec:
\* Red takes the running max and raises alpha, Black takes the running min
\* and lowers beta, and the loop is left on a cutoff.
Updated(st, rec, is_red) ==
    IF rec.raised # ""
    THEN [st EXCEPT !.objs = rec.objs, !.done = TRUE, !.raised = rec.raised]
    ELSE IF is_red
    THEN [st EXCEPT !.objs = rec.objs,
                    !.value = max(st.value, rec.value),
                    !.alpha = max(st.alpha, max(st.value, rec.value)),
                    !.done = Cutoff(TRUE, max(st.alpha, max(st.value, rec.value)), st.beta)]
    ELSE [st EXCEPT !.objs = rec.objs,
                    !.value = min(st.value, rec.value),
                    !.beta = min(st.beta, min(st.value, rec.value)),
                    !.done = Cutoff(FALSE, st.alpha, min(st.beta, min(st.value, rec.value)))]

\* tree.add_subtree(subtree) in a round of _alpha_beta, before the test for
\* the cutoff.
Added(st, tree, subtree) ==
    IF st.raised # "" THEN st
    ELSE [st EXCEPT !.objs = add_subtree(st.objs, tree, subtree)]

\* One round of the loop of _alpha_beta, for move i of the list:
\* subtree = GameTree(move, False) when Red is to move and
\* GameTree(move, True) when Black is.
SearchRound(st, heap, game, tree, depth, i) ==
    Added(Updated(st,
                  Below(GameTree(st.objs, get_valid_moves(game)[i], ~game._is_red_active,
                                 0, Float(0, 1), Float(0, 1)),
                        copy_and_make_move(heap, game, get_valid_moves(game)[i]),
                        New(st.objs), depth, st.alpha, st.beta),
                  game._is_red_active),
          tree, New(st.objs))

\* The rounds of the loop of _alpha_beta for the moves lo..hi of the list,
\* in order, up to the one that leaves the loop.  The range is halved so
\* that the evaluation stays shallow.
RECURSIVE SearchFrom(_, _, _, _, _, _, _)
SearchFrom(st, heap, game, tree, depth, lo, hi) ==
    IF st.done \/ lo > hi THEN st
    ELSE IF lo = hi THEN SearchRound(st, heap, game, tree, depth, lo)
    ELSE SearchFrom(SearchFrom(st, heap, game, tree, depth, lo, (lo + hi) \div 2),
                    heap, game, tree, depth, (lo + hi) \div 2 + 1, hi)

\* tree.relative_points = value and the return at the end of _alpha_beta.
Valued(st, tree) ==
    IF st.raised # ""
    THEN [objs |-> st.objs, value |-> 0, raised |-> st.raised]
    ELSE [objs |-> [st.objs EXCEPT ![tree].relative_points = st.value],
          value |-> st.value, raised |-> ""]

\* ExploringPlayer._alpha_beta
_alpha_beta(objs, heap, game, tree, depth, alpha, beta) ==
    IF get_winner(heap, game) # "None" \/ depth = 0
    THEN Evaluated(objs, heap, game, tree, depth)
    ELSE Valued(SearchFrom(Started(objs, game._is_red_active, alpha, beta, <<>>),
                           heap, game, tree, depth, 1, Len(get_valid_moves(game))),
                tree)

\* The directory temp is the list of its files, <<i, content>> standing
\* for temp/process{i}.xml; writing a file replaces one of the same name.
Written(files, i, xml) ==
    Append(SelectSeq(files, LAMBDA f : f[1] # i), <<i, xml>>)

\* Whether the directory has temp/process{i}.xml, and its content.
Exists(files, i) == \E k \in 1..Len(files) : files[k][1] = i
Content(files, i) == files[CHOOSE k \in 1..Len(files) : files[k][1] = i][2]

\* tree_to_xml(subtree, f'temp/process{i}.xml') in a round of
\* _alpha_beta_process, before the test for the cutoff.
Filed(st, subtree, i) ==
    IF st.raised # "" THEN st
    ELSE [st EXCEPT !.files = Written(st.files, i, tree_to_xml(st.objs, subtree))]

\* One round of the loop of _alpha_beta_process, for possible_moves[i].
ProcessRound(st, heap, game, depth, i) ==
    Filed(Updated(st,
                  Below(GameTree(st.objs, get_valid_moves(game)[i + 1],
                                 ~game._is_red_active, 0, Float(0, 1), Float(0, 1)),
                        copy_and_make_move(heap, game, get_valid_moves(game)[i + 1]),
                        New(st.objs), depth, st.alpha, st.beta),
                  game._is_red_active),
          New(st.objs), i)

\* The rounds of the loop of _alpha_beta_process for i in range(lo, hi), in
\* order, up to the one that leaves the loop.
RECURSIVE ProcessFrom(_, _, _, _, _, _)
ProcessFrom(st, heap, game, depth, lo, hi) ==
    IF st.done \/ lo >= hi THEN st
    ELSE IF lo + 1 = hi THEN ProcessRound(st, heap, game, depth, lo)
    ELSE ProcessFrom(ProcessFrom(st, heap, game, depth, lo, (lo + hi) \div 2),
                     heap, game, depth, (lo + hi) \div 2, hi)

\* ExploringPlayer._alpha_beta_process.  The process works on its own copy
\* of the objects and leaves only files: yields the directory after it.
_alpha_beta_process(objs, heap, game, depth, alpha, beta, start, end, files) ==
    ProcessFrom(Started(objs, game._is_red_active, alpha, beta, files),
                heap, game, depth, start, end).files

\* The ranges <<start, end>> the first loop of _alpha_beta_multi hands to
\* the processes i, i + 1, ..., when process i gets <<start, end>>: each
\* next one starts where the one before ends and gets per_process moves, the
\* last one gets last_process moves.
RECURSIVE RangesFrom(_, _, _, _, _)
RangesFrom(per_process, last_process, i, start, end) ==
    IF i >= PROCESSES THEN <<>>
    ELSE <<<<start, end>>>>
         \o RangesFrom(per_process, last_process, i + 1, end,
                       IF i # PROCESSES - 2 THEN end + per_process ELSE end + last_process)

\* A hand-out in which the last process gets no moves.
RangesWithoutRemainder(n) ==
    RangesFrom(n \div (PROCESSES - 1), 0, 0, 0, n \div (PROCESSES - 1))

\* The ranges handed out for n moves: per_process, last_process =
\* divmod(n, PROCESSES - 1); start, end = 0, per_process.
Ranges(n) ==
    RangesFrom(n \div (PROCESSES - 1), n % (PROCESSES - 1), 0, 0, n \div (PROCESSES - 1))

\* The first loop of _alpha_beta_multi from process i on, the processes
\* getting the moves of ranges.  They are all joined before anything is
\* read; they write files of different names, so the directory after all
\* of them is the same in whatever order they run.  The directory is
\* looked at in each round so that the evaluation stays shallow.
RECURSIVE StartFrom(_, _, _, _, _, _, _, _, _)
StartFrom(objs, heap, game, depth, alpha, beta, ranges, i, files) ==
    IF Len(files) >= 0 /\ i > Len(ranges) THEN files
    ELSE StartFrom(objs, heap, game, depth, alpha, beta, ranges, i + 1,
                   _alpha_beta_process(objs, heap, game, depth, alpha, beta,
                                       ranges[i][1], ranges[i][2], files))

\* os.remove(f'temp/process{i}.xml')
Removed(files, i) == SelectSeq(files, LAMBDA f : f[1] # i)

\* The second loop of _alpha_beta_multi for i in range(lo, hi), in order,
\* up to a file that is missing: the tree of temp/process{i}.xml is read
\* and added to the tree of the player, and the file is removed.  rec is
\* [objs, value, raised, files (the directory temp)].
RECURSIVE LoadFrom(_, _, _, _)
LoadFrom(rec, tree, lo, hi) ==
    IF rec.raised # "" \/ lo >= hi THEN rec
    ELSE IF lo + 1 = hi
    THEN IF ~Exists(rec.files, lo)
         THEN [rec EXCEPT !.raised = "FileNotFoundError"]
         ELSE [rec EXCEPT !.objs = add_subtree(xml_to_tree(rec.objs, Content(rec.files, lo)).objs,
                                               tree, New(rec.objs)),
                          !.files = Removed(rec.files, lo)]
    ELSE LoadFrom(LoadFrom(rec, tree, lo, (lo + hi) \div 2),
                  tree, (lo + hi) \div 2, hi)

\* The end of _alpha_beta_multi were the maximum taken for either side.
BestIsMaximum(rec, tree, is_red) ==
    IF rec.raised # "" THEN rec
    ELSE IF rec.objs[tree]._subtrees = <<>> THEN [rec EXCEPT !.raised = "ValueError"]
    ELSE [objs |-> [rec.objs EXCEPT ![tree].relative_points =
                        MaxOf(SubtreePoints(rec.objs, tree))],
          value |-> MaxOf(SubtreePoints(rec.objs, tree)),
          raised |-> "",
          files |-> rec.files]

\* The end of _alpha_beta_multi: the best relative points among all the
\* subtrees of the tree of the player become its relative points; max()
\* and min() of no subtrees raise ValueError.
Best(rec, tree, is_red) ==
    IF rec.raised # "" THEN rec
    ELSE IF rec.objs[tree]._subtrees = <<>> THEN [rec EXCEPT !.raised = "ValueError"]
    ELSE [objs |-> [rec.objs EXCEPT ![tree].relative_points =
                        IF is_red THEN MaxOf(SubtreePoints(rec.objs, tree))
                        ELSE MinOf(SubtreePoints(rec.objs, tree))],
          value |-> IF is_red THEN MaxOf(SubtreePoints(rec.objs, tree))
                    ELSE MinOf(SubtreePoints(rec.objs, tree)),
          raised |-> "",
          files |-> rec.files]

\* ExploringPlayer._alpha_beta_multi; self is the player.  The directory
\* temp is empty when it starts.  Yields [objs, value, raised, files (the
\* directory temp after it)].
_alpha_beta_multi(objs, heap, game, self, depth, alpha, beta) ==
    Best(LoadFrom([objs |-> objs, value |-> 0, raised |-> "",
                   files |-> StartFrom(objs, heap, game, depth, alpha, beta,
                                       Ranges(Len(get_valid_moves(game))), 1, <<>>)],
                  self._game_tree, 0, Len(get_valid_moves(game))),
         self._game_tree, game._is_red_active)

\* Python's None where a move is expected.
NoMove == <<>>

\* [t for t in trees if objs[t][field] == value]
Filtered(objs, trees, field, value) ==
    SelectSeq(trees, LAMBDA t : objs[t][field] = value)

\* [objs[t][field] for t in trees]
Field(objs, trees, field) == [i \in 1..Len(trees) |-> objs[trees[i]][field]]

\* A make_move that keeps every subtree with the best score as a candidate.
NotNarrowed(objs, candidate_subtrees, own, others) == candidate_subtrees

\* The narrowing of the candidates in make_move: those with the highest
\* win probability of the mover, then among them those with the lowest
\* win probability of the opponent.
Narrowed(objs, candidate_subtrees, own, others) ==
    Filtered(objs,
        Filtered(objs, candidate_subtrees, own,
                 MaxFloat(Field(objs, candidate_subtrees, own))),
        others,
        MinFloat(Field(objs,
            Filtered(objs, candidate_subtrees, own,
                     MaxFloat(Field(objs, candidate_subtrees, own))),
            others)))

\* The candidates of make_move after the search rec.
Candidates(rec, self, is_red) ==
    IF is_red
    THEN Narrowed(rec.objs,
             Filtered(rec.objs, get_subtrees(rec.objs, self._game_tree),
                      "relative_points", rec.value),
             "red_win_probability", "black_win_probability")
    ELSE Narrowed(rec.objs,
             Filtered(rec.objs, get_subtrees(rec.objs, self._game_tree),
                      "relative_points", rec.value),
             "black_win_probability", "red_win_probability")

RECURSIVE Power(_, _)
Power(b, e) == IF e = 0 THEN 1 ELSE b * Power(b, e - 1)

\* n.bit_length()
RECURSIVE bit_length(_)
bit_length(n) == IF n = 0 THEN 0 ELSE 1 + bit_length(n \div 2)

\* Random._randbelow(n): getrandbits(n.bit_length()) until it is below n.
\* The generator yields 32-bit words from its seeded state on, and
\* getrandbits(k) is the top k bits of the next word; words lists the top
\* 16 bits of each, which decide a choice among fewer than 65536 elements.
RECURSIVE _randbelow(_, _)
_randbelow(n, words) ==
    IF Head(words) \div Power(2, 16 - bit_length(n)) < n
    THEN Head(words) \div Power(2, 16 - bit_length(n))
    ELSE _randbelow(n, Tail(words))

\* random.choice(seq)
choice(seq, words) == seq[_randbelow(Len(seq), words) + 1]

\* The search of make_move with the tree it starts from: a new GameTree of
\* the previous move, or the tree the player has when previous_move is None.
SearchedBy(objs, heap, game, self) ==
    [rec |-> _alpha_beta_multi(objs, heap, game, self, self._depth, -Infinity, Infinity),
     self |-> self]

\* ExploringPlayer.make_move up to the random choice.  Yields [rec (the
\* search), self (the player after it)].
ExploringPlayer_make_move(objs, heap, game, self, previous_move) ==
    IF previous_move = NoMove
    THEN SearchedBy(objs, heap, game, self)
    ELSE SearchedBy(GameTree(objs, previous_move, game._is_red_active,
                             0, Float(0, 1), Float(0, 1)),
                    heap, game, [self EXCEPT !._game_tree = New(objs)])

\* The move make_move returns after the search done: the move of
\* random.choice(candidate_subtrees).
Chosen(done, is_red, words) ==
    done.rec.objs[choice(Candidates(done.rec, done.self, is_red), words)].move

\* ExploringPlayer.reload_tree: the player gets a new, empty tree.
reload_tree(objs, self) ==
    [objs |-> GameTree(objs, GAME_START_MOVE, TRUE, 0, Float(0, 1), Float(0, 1)),
     self |-> [self EXCEPT !._game_tree = New(objs)]]

(***************************************************************************)
(* AIBlack                                                                 *)
(*                                                                         *)
(* The player is [_game_tree, _depth, _current_tree, _current_subtree].    *)
(* A call yields [objs, self, move, raised].                               *)
(***************************************************************************)

\* A file that does not exist.
NoFile == [missing |-> TRUE]

\* AIBlack.reload_tree when the file holds xml: the tree read, or None when
\* FileNotFoundError is caught.  Yields [objs, self].
AIBlack_reload_tree(objs, self, xml) ==
    IF xml = NoFile
    THEN [objs |-> objs, self |-> [self EXCEPT !._game_tree = NoTree]]
    ELSE [objs |-> xml_to_tree(objs, xml).objs,
          self |-> [self EXCEPT !._game_tree = New(objs)]]

\* AIBlack(xml_file, depth) when the file holds xml.  Yields [objs, self].
AIBlack(xml, depth) ==
    AIBlack_reload_tree(
        GameTree(<<>>, GAME_START_MOVE, TRUE, 0, Float(0, 1), Float(0, 1)),
        [_game_tree |-> NoTree, _depth |-> depth,
         _current_tree |-> 1, _current_subtree |-> 1],
        xml)

\* The first branch of AIBlack.make_move once the explorer has searched
\* (done): its tree becomes a subtree of the current subtree, which
\* descends to the first subtree with the move of that tree.
Explored(done, self, is_red, words) ==
    IF done.rec.raised # ""
    THEN [objs |-> done.rec.objs, self |-> self, move |-> NoMove,
          raised |-> done.rec.raised]
    ELSE [objs |-> add_subtree(done.rec.objs, self._current_subtree, done.self._game_tree),
          self |-> [self EXCEPT !._current_subtree =
                       find_subtree_by_move(
                           add_subtree(done.rec.objs, self._current_subtree,
                                       done.self._game_tree),
                           self._current_subtree,
                           done.rec.objs[done.self._game_tree].move)],
          move |-> Chosen(done, is_red, words),
          raised |-> ""]

\* The second branch of AIBlack.make_move once new_subtree, the newest
\* object, is made and chosen_subtree is chosen from the subtrees of the
\* tree of the player.
Followed(objs, self, chosen_subtree) ==
    [objs |-> add_subtree(add_subtree(objs, self._current_subtree, Len(objs)),
                          self._current_subtree, chosen_subtree),
     self |-> [self EXCEPT
                  !._game_tree = chosen_subtree,
                  !._current_subtree =
                      find_subtree_by_move(
                          add_subtree(add_subtree(objs, self._current_subtree, Len(objs)),
                                      self._current_subtree, chosen_subtree),
                          self._current_subtree, objs[chosen_subtree].move)],
     move |-> objs[chosen_subtree].move,
     raised |-> ""]

\* AIBlack.make_move after its first statement left the player self: with
\* no tree or no subtrees ExploringPlayer(self._depth) searches from the
\* previous move, else the player picks from the subtrees of its tree.
Replied(objs, heap, game, self, previous_move, words) ==
    IF self._game_tree = NoTree \/ get_subtrees(objs, self._game_tree) = <<>>
    THEN Explored(ExploringPlayer_make_move(objs, heap, game,
                      [_game_tree |-> NoTree, _depth |-> self._depth], previous_move),
                  self, game._is_red_active, words)
    ELSE Followed(GameTree(objs, previous_move, FALSE, 0, Float(0, 1), Float(0, 1)),
                  self,
                  choice(Candidates([objs |-> objs,
                                     value |-> MinOf(SubtreePoints(objs, self._game_tree))],
                                    self, FALSE),
                         words))

\* AIBlack.make_move
AIBlack_make_move(objs, heap, game, self, previous_move, words) ==
    Replied(objs, heap, game,
            IF self._game_tree # NoTree
            THEN [self EXCEPT !._game_tree =
                     find_subtree_by_move(objs, self._game_tree, previous_move)]
            ELSE self,
            previous_move, words)

\* The end of AIBlack.store_tree after reload_tree left r: merge_with on
\* None raises AttributeError and nothing is written, else the tree read
\* is merged with the current tree and written.  Yields [objs, self, xml
\* (the file after it), raised].
Merged(r, xml) ==
    IF r.self._game_tree = NoTree
    THEN [objs |-> r.objs, self |-> r.self, xml |-> xml, raised |-> "AttributeError"]
    ELSE [objs |-> merge_with(r.objs, r.self._game_tree, r.self._current_tree),
          self |-> r.self,
          xml |-> tree_to_xml(merge_with(r.objs, r.self._game_tree, r.self._current_tree),
                              r.self._game_tree),
          raised |-> ""]

\* AIBlack.store_tree
store_tree(objs, self, xml) == Merged(AIBlack_reload_tree(objs, self, xml), xml)

(***************************************************************************)
(* LearningPlayer                                                          *)
(*                                                                         *)
(* The player is [_game_tree, _depth]; default is the GameTree() that is   *)
(* the default argument of ExploringPlayer.__init__.  A call yields        *)
(* [objs, self, move, raised].                                             *)
(***************************************************************************)

\* EPSILON = 0.2
EPSILON == Float(1, 5)

\* LearningPlayer.reload_tree when the file holds xml: the tree read, or a
\* new GameTree() when FileNotFoundError is caught.  Yields [objs, self].
LearningPlayer_reload_tree(objs, self, xml) ==
    IF xml = NoFile
    THEN [objs |-> GameTree(objs, GAME_START_MOVE, TRUE, 0, Float(0, 1), Float(0, 1)),
          self |-> [self EXCEPT !._game_tree = New(objs)]]
    ELSE [objs |-> xml_to_tree(objs, xml).objs,
          self |-> [self EXCEPT !._game_tree = New(objs)]]

\* ExploringPlayer.get_two_depth_tree: the objects once every subtree of the
\* tree of the player has lost its subtrees.
get_two_depth_tree(objs, self) ==
    [k \in 1..Len(objs) |->
        IF In(k, objs[self._game_tree]._subtrees)
        THEN [objs[k] EXCEPT !._subtrees = <<>>]
        ELSE objs[k]]

\* LearningPlayer._change_to_explore once the explorer has searched (done):
\* its tree of two levels becomes the tree of the player, or is merged into
\* it; the tree of the player does not descend to the move returned.
ChangedToExplore(done, self, is_red, words) ==
    IF done.rec.raised # ""
    THEN [objs |-> done.rec.objs, self |-> self, move |-> NoMove,
          raised |-> done.rec.raised]
    ELSE IF self._game_tree = NoTree
    THEN [objs |-> get_two_depth_tree(done.rec.objs, done.self),
          self |-> [self EXCEPT !._game_tree = done.self._game_tree],
          move |-> Chosen(done, is_red, words),
          raised |-> ""]
    ELSE [objs |-> merge_with(get_two_depth_tree(done.rec.objs, done.self),
                              self._game_tree, done.self._game_tree),
          self |-> self,
          move |-> Chosen(done, is_red, words),
          raised |-> ""]

\* LearningPlayer._change_to_explore
_change_to_explore(objs, heap, game, self, previous_move, default, words) ==
    ChangedToExplore(ExploringPlayer_make_move(objs, heap, game,
                [_game_tree |-> default, _depth |-> self._depth], previous_move),
            self, game._is_red_active, words)

\* The win probability LearningPlayer.make_move looks at: that of the side
\* the tree of the player says is to move.
OwnProbability(objs, tree) ==
    IF objs[tree].is_red_move THEN "red_win_probability" ELSE "black_win_probability"

\* Whether make_move takes the move from the tree of the player self: the
\* tree has subtrees and its own win probability is above EPSILON.
TakesFromTree(objs, self) ==
    /\ self._game_tree # NoTree
    /\ get_subtrees(objs, self._game_tree) # <<>>
    /\ Less(EPSILON, objs[self._game_tree][OwnProbability(objs, self._game_tree)])

\* The branch of make_move that takes the move from the tree: the first
\* subtree with the own win probability of the tree becomes the tree of
\* the player; list.index raises ValueError when there is none.
Taken(objs, self, field) ==
    IF ~In(objs[self._game_tree][field],
           Field(objs, get_subtrees(objs, self._game_tree), field))
    THEN [objs |-> objs, self |-> self, move |-> NoMove, raised |-> "ValueError"]
    ELSE [objs |-> objs,
          self |-> [self EXCEPT !._game_tree =
                       get_subtrees(objs, self._game_tree)[
                           index(Field(objs, get_subtrees(objs, self._game_tree), field),
                                 objs[self._game_tree][field]) + 1]],
          move |-> objs[get_subtrees(objs, self._game_tree)[
                           index(Field(objs, get_subtrees(objs, self._game_tree), field),
                                 objs[self._game_tree][field]) + 1]].move,
          raised |-> ""]

\* The tree of the player after the first statement of make_move: the
\* subtree of the previous move, the tree itself before the first move.
Descended(objs, self, previous_move) ==
    IF previous_move = NoMove THEN self
    ELSE [self EXCEPT !._game_tree = find_subtree_by_move(objs, self._game_tree, previous_move)]

\* LearningPlayer.make_move after its first statement left the player self.
Answered(objs, heap, game, self, previous_move, default, words) ==
    IF TakesFromTree(objs, self)
    THEN Taken(objs, self, OwnProbability(objs, self._game_tree))
    ELSE _change_to_explore(objs, heap, game, self, previous_move, default, words)

\* LearningPlayer.make_move
LearningPlayer_make_move(objs, heap, game, self, previous_move, default, words) ==
    Answered(objs, heap, game, Descended(objs, self, previous_move),
             previous_move, default, words)

(***************************************************************************)
(* Bounds and inputs                                                       *)
(***************************************************************************)

\* The number of calls explored from a sparse (endgame) starting position.
MaxCalls == 2

\* The number of calls explored from a crowded starting position (the
\* opening layout and the middle game), where some 45 moves are legal.
MaxCrowdedCalls == 1

R == TRUE
B == FALSE

\* Kings facing each other on the open middle file, Black to move on the
\* last move before the move limit; Red has a chariot on its back rank.
FacingBoard ==
    BoardOf({<<9, 4, "k", R>>, <<9, 0, "r", R>>, <<0, 4, "k", B>>, <<3, 0, "p", B>>})

\* Kings on one file with a single Red pawn between them.
ScreenedBoard ==
    BoardOf({<<9, 4, "k", R>>, <<3, 4, "p", R>>, <<0, 4, "k", B>>, <<0, 3, "a", B>>})

\* Red pawns across the river: a pair on the middle file, and singles that one
\* sideways step puts on a shared file.  Black has a pair of its own.
RedPawnsBoard ==
    BoardOf({<<9, 3, "k", R>>, <<3, 0, "p", R>>, <<4, 1, "p", R>>, <<3, 4, "p", R>>,
             <<4, 4, "p", R>>, <<2, 5, "p", R>>,
             <<0, 5, "k", B>>, <<5, 8, "p", B>>, <<6, 8, "p", B>>})

\* Three Red pawns on the middle file and two on the left edge file.
TripledBoard ==
    BoardOf({<<9, 3, "k", R>>, <<2, 4, "p", R>>, <<3, 4, "p", R>>, <<4, 4, "p", R>>,
             <<3, 0, "p", R>>, <<4, 0, "p", R>>,
             <<0, 5, "k", B>>, <<1, 4, "a", B>>})

\* Black pawns across the river: three on one file, two on another, Black to move.
BlackPawnsBoard ==
    BoardOf({<<0, 3, "k", B>>, <<5, 2, "p", B>>, <<6, 2, "p", B>>, <<7, 2, "p", B>>,
             <<6, 7, "p", B>>, <<5, 7, "p", B>>,
             <<9, 5, "k", R>>, <<8, 4, "a", R>>})

\* BlackPawnsBoard two moves later (33.2, k4+1): Black has a pair of pawns on
\* each of two files and a single pawn beside the front pawns.
PawnPairsBoard ==
    BoardOf({<<0, 3, "k", B>>, <<5, 1, "p", B>>, <<6, 2, "p", B>>, <<7, 2, "p", B>>,
             <<5, 7, "p", B>>, <<6, 7, "p", B>>,
             <<8, 5, "k", R>>, <<8, 4, "a", R>>})

\* An endgame with elephants: a Red elephant one move from the river bank and
\* a Black horse that can step onto the eyes of the bank squares.
ElephantBoard ==
    BoardOf({<<9, 3, "k", R>>, <<7, 4, "e", R>>, <<9, 6, "e", R>>,
             <<0, 4, "k", B>>, <<2, 4, "e", B>>, <<4, 0, "h", B>>})

\* A middle game in which each side has its two chariots, horses, cannons,
\* elephants and advisors on a shared file.
MiddleBoard ==
    BoardOf({<<9, 4, "k", R>>, <<9, 3, "a", R>>, <<7, 3, "a", R>>, <<9, 2, "e", R>>,
             <<5, 2, "e", R>>, <<7, 6, "h", R>>, <<5, 6, "h", R>>, <<7, 1, "c", R>>,
             <<4, 1, "c", R>>, <<9, 8, "r", R>>, <<6, 8, "r", R>>, <<6, 4, "p", R>>,
             <<0, 4, "k", B>>, <<0, 5, "a", B>>, <<2, 5, "a", B>>, <<0, 6, "e", B>>,
             <<4, 6, "e", B>>, <<2, 2, "h", B>>, <<3, 2, "h", B>>, <<2, 7, "c", B>>,
             <<5, 7, "c", B>>, <<0, 0, "r", B>>, <<3, 0, "r", B>>, <<3, 4, "p", B>>})

\* The games the model starts from: ChessGame() and ChessGame(board,
\* red_active, move_count) on positions that play from the opening layout
\* reaches (every piece on a square its moves can take it to).
Starts ==
    { [board |-> InitialBoard,    red_active |-> TRUE,  move_count |-> 0,   crowded |-> TRUE],
      [board |-> MiddleBoard,     red_active |-> TRUE,  move_count |-> 60,  crowded |-> TRUE],
      [board |-> MiddleBoard,     red_active |-> FALSE, move_count |-> 61,  crowded |-> TRUE],
      [board |-> FacingBoard,     red_active |-> FALSE, move_count |-> 199, crowded |-> FALSE],
      [board |-> FacingBoard,     red_active |-> TRUE,  move_count |-> 120, crowded |-> FALSE],
      [board |-> ScreenedBoard,   red_active |-> TRUE,  move_count |-> 198, crowded |-> FALSE],
      [board |-> RedPawnsBoard,   red_active |-> TRUE,  move_count |-> 90,  crowded |-> FALSE],
      [board |-> TripledBoard,    red_active |-> TRUE,  move_count |-> 94,  crowded |-> FALSE],
      [board |-> BlackPawnsBoard, red_active |-> FALSE, move_count |-> 95,  crowded |-> FALSE],
      [board |-> PawnPairsBoard,  red_active |-> FALSE, move_count |-> 97,  crowded |-> FALSE],
      [board |-> ElephantBoard,   red_active |-> TRUE,  move_count |-> 40,  crowded |-> FALSE] }

\* str.upper() of a string given as the tuple of its characters.
upper(s) == [i \in 1..Len(s) |-> upperChar(s[i])]

\* Strings that are no legal move in most positions: a king's two-step, a
\* pawn's step back, a horse's jump, an upper-case spelling, no notation at all.
OtherInputs ==
    { <<"k", "5", "+", "2">>, <<"p", "5", "-", "1">>, <<"h", "2", "+", "4">>,
      <<"K", "5", "-", "2">>, <<"x", "0", "+", "0">> }

\* The strings a caller passes as a move: every legal move, the upper-case
\* spelling of the first of them, and OtherInputs.
MoveInputs(g) ==
    {g._valid_moves[i] : i \in 1..Len(g._valid_moves)}
    \cup {upper(g._valid_moves[i]) : i \in {j \in {1} : j <= Len(g._valid_moves)}}
    \cup OtherInputs

(***************************************************************************)
(* State                                                                   *)
(***************************************************************************)

VARIABLES
    heap,   \* the board objects: reference -> board
    game,   \* the live ChessGame
    copy,   \* the ChessGame last returned by copy_and_make_move, or NoGame
    op,     \* the last call: [name, on, move, raised]
    left,   \* the number of calls still to explore
    objs,   \* the GameTree objects: reference -> object
    player, \* the ExploringPlayer, or NoPlayer
    roots,  \* the trees a caller holds: [t, o, loaded], references or NoTree
    ret,    \* what the last call of a player or of a search returned
    disk,   \* the files: [temp (the directory temp), xml (the tree file)]
    run     \* the locals of run_game, or NoRun

vars == <<heap, game, copy, op, left, objs, player, roots, ret, disk, run>>

\* No player, no trees held, nothing returned.
NoPlayer == [_game_tree |-> NoTree, _depth |-> 0]
NoRoots == [t |-> NoTree, o |-> NoTree, loaded |-> NoTree]
NoValue == <<>>

\* No game is being run.
NoRun == [red |-> <<>>, black |-> <<>>, current_player |-> "", previous_move |-> <<>>, move_sequence |-> <<>>]

\* An empty directory temp and no tree file.
NoDisk == [temp |-> <<>>, xml |-> NoFile]

\* No tree object is made and no player is called.
TreesUnchanged == UNCHANGED <<objs, player, roots, ret, disk, run>>

\* The state after constructing the game of start s.
Constructed(s) ==
    /\ heap = Store(<<>>, 1, s.board)
    /\ game = __init__(Store(<<>>, 1, s.board), 1, s.red_active, s.move_count)
    /\ copy = NoGame
    /\ op = [name |-> "__init__", on |-> "game", move |-> <<>>, raised |-> ""]
    /\ left = IF s.crowded THEN MaxCrowdedCalls ELSE MaxCalls
    /\ objs = <<>>
    /\ player = NoPlayer
    /\ roots = NoRoots
    /\ ret = NoValue
    /\ disk = NoDisk
    /\ run = NoRun

Init == \E s \in Starts : Constructed(s)

\* The state after a call on the live game that yielded r.
GameCalled(name, m, r) ==
    /\ game' = r.self
    /\ heap' = Collect(r.heap, {r.self._board, copy._board})
    /\ op' = [name |-> name, on |-> "game", move |-> m, raised |-> r.raised]
    /\ copy' = copy
    /\ left' = left - 1
    /\ TreesUnchanged

\* game.make_move(m)
MakeMove(m) ==
    /\ left > 0
    /\ GameCalled("make_move", m, make_move(heap, game, m))

Next == \E m \in MoveInputs(game) : MakeMove(m)

Spec == Init /\ [][Next]_vars

(***************************************************************************)
(* The live game together with a game made by copy_and_make_move           *)
(***************************************************************************)

\* The starts of the specification with copies: the sparse positions with
\* the kings on one file.
CopyStarts == {s \in Starts : s.board \in {FacingBoard, ScreenedBoard}}

InitCopy == \E s \in CopyStarts : Constructed(s)

\* The state after c = game.copy_and_make_move(m) yielded r: the assignment
\* to c does not happen when the call raises.
CopyReturned(m, r) ==
    /\ game' = r.self
    /\ copy' = IF r.raised = "" THEN r.ret ELSE copy
    /\ heap' = Collect(r.heap, {r.self._board,
                                IF r.raised = "" THEN r.ret._board ELSE copy._board})
    /\ op' = [name |-> "copy_and_make_move", on |-> "game", move |-> m, raised |-> r.raised]
    /\ left' = left - 1
    /\ TreesUnchanged

\* copy = game.copy_and_make_move(m)
CopyAndMakeMove(m) ==
    /\ left > 0
    /\ CopyReturned(m, copy_and_make_move(heap, game, m))

\* The state after a make_move call on the copy that yielded r.
CopyCalled(m, r) ==
    /\ copy' = r.self
    /\ heap' = Collect(r.heap, {r.self._board, game._board})
    /\ op' = [name |-> "make_move", on |-> "copy", move |-> m, raised |-> r.raised]
    /\ game' = game
    /\ left' = left - 1
    /\ TreesUnchanged

\* copy.make_move(m)
MakeMoveOnCopy(m) ==
    /\ left > 0
    /\ copy # NoGame
    /\ CopyCalled(m, make_move(heap, copy, m))

NextCopy ==
    \/ \E m \in MoveInputs(game) : MakeMove(m)
    \/ \E m \in MoveInputs(game) : CopyAndMakeMove(m)
    \/ \E m \in MoveInputs(copy) : MakeMoveOnCopy(m)

SpecCopy == InitCopy /\ [][NextCopy]_vars

(***************************************************************************)
(* An ExploringPlayer searching the live game                              *)
(***************************************************************************)

\* The depth of the deepest search explored.
MaxDepth == 3

\* The greatest number of legal root moves for which the hand-out of the
\* moves to the processes is examined.
MaxMoves == 45

\* The number of calls explored with a player.
MaxSearches == 2

\* The two kings on different files.
KingsBoard == BoardOf({<<9, 3, "k", R>>, <<0, 5, "k", B>>})

\* The two kings on one open file: the side to move can take the king.
OpenFileBoard == BoardOf({<<9, 4, "k", R>>, <<1, 4, "k", B>>})

\* The kings on one file with a Red pawn between them: Black has two moves,
\* one of which lets Red open the file.
PawnBetweenBoard == BoardOf({<<7, 3, "k", R>>, <<3, 3, "p", R>>, <<0, 3, "k", B>>})

\* Nine moves for Red: the king and two pawns across the river; Black has
\* a pawn across the river too.
PawnsBoard ==
    BoardOf({<<9, 4, "k", R>>, <<3, 2, "p", R>>, <<4, 6, "p", R>>,
             <<0, 3, "k", B>>, <<6, 4, "p", B>>})

\* Black to move has a king step onto the file of the Red king, which
\* loses the king at once, beside quiet moves of the king and of a pawn.
ExposedKingBoard == BoardOf({<<7, 5, "k", R>>, <<0, 4, "k", B>>, <<7, 7, "p", B>>})

\* Red to move has no legal move: the king is shut in by its two elephants,
\* whose eyes are taken by Black pawns no Red piece can reach.
NoMoveBoard ==
    BoardOf({<<9, 3, "k", R>>, <<9, 4, "e", R>>, <<8, 3, "e", R>>,
             <<8, 5, "p", B>>, <<7, 2, "p", B>>, <<7, 4, "p", B>>, <<0, 4, "k", B>>})

\* The positions searched: endgames, the one with the most moves two moves
\* before the move limit.
SearchStarts ==
    { [board |-> KingsBoard,    red_active |-> TRUE,  move_count |-> 100],
      [board |-> KingsBoard,    red_active |-> FALSE, move_count |-> 101],
      [board |-> OpenFileBoard, red_active |-> FALSE, move_count |-> 51],
      [board |-> PawnBetweenBoard, red_active |-> FALSE, move_count |-> 71],
      [board |-> ExposedKingBoard, red_active |-> FALSE, move_count |-> 198],
      [board |-> NoMoveBoard,   red_active |-> TRUE,  move_count |-> 10],
      [board |-> PawnsBoard,    red_active |-> TRUE,  move_count |-> 198] }

\* What a caller passes as previous_move: None, or the last move of the
\* opponent.
PreviousMoves == {NoMove, <<"k", "5", ".", "4">>}

\* The random generator after random.seed(0) and after random.seed(1): the
\* top 16 bits of the first words it yields.
Seeds == { <<55340, 25247, 49673, 58343>>, <<8805, 37303, 55537, 52577>> }

\* The state after constructing the game of start s and ExploringPlayer(d),
\* whose tree is the default GameTree().
SearchConstructed(s, d) ==
    /\ heap = Store(<<>>, 1, s.board)
    /\ game = __init__(Store(<<>>, 1, s.board), 1, s.red_active, s.move_count)
    /\ copy = NoGame
    /\ op = [name |-> "__init__", on |-> "player", move |-> <<>>, raised |-> ""]
    /\ left = MaxSearches
    /\ objs = GameTree(<<>>, GAME_START_MOVE, TRUE, 0, Float(0, 1), Float(0, 1))
    /\ player = [_game_tree |-> 1, _depth |-> d]
    /\ roots = NoRoots
    /\ ret = NoValue
    /\ disk = NoDisk
    /\ run = NoRun

InitSearch == \E s \in SearchStarts : \E d \in 1..MaxDepth : SearchConstructed(s, d)

\* The state after player.make_move(game, previous_move) did the search
\* done and chose with the generator at words.
PlayerMoved(done, previous_move, words) ==
    /\ objs' = done.rec.objs
    /\ player' = done.self
    /\ ret' = IF done.rec.raised = ""
              THEN Chosen(done, game._is_red_active, words) ELSE NoValue
    /\ op' = [name |-> "ExploringPlayer.make_move", on |-> "player",
              move |-> previous_move, raised |-> done.rec.raised]
    /\ disk' = [disk EXCEPT !.temp = done.rec.files]
    /\ run' = run
    /\ left' = left - 1
    /\ UNCHANGED <<heap, game, copy, roots>>

\* random.seed(...); move = player.make_move(game, previous_move), called
\* as run_game does while the game has no winner; a valid move exists.
PlayerMakeMove(previous_move, words) ==
    /\ left > 0
    /\ get_winner(heap, game) = "None"
    /\ get_valid_moves(game) # <<>>
    /\ PlayerMoved(ExploringPlayer_make_move(objs, heap, game, player, previous_move),
                   previous_move, words)

\* The state after player._alpha_beta(game, tree, ...) on a new GameTree()
\* returned rec; the caller holds the tree as t.  A direct search is the
\* last call explored.
AlphaBetaReturned(rec) ==
    /\ objs' = rec.objs
    /\ roots' = [roots EXCEPT !.t = New(objs)]
    /\ ret' = IF rec.raised = "" THEN rec.value ELSE NoValue
    /\ op' = [name |-> "_alpha_beta", on |-> "player", move |-> <<>>,
              raised |-> rec.raised]
    /\ left' = 0
    /\ UNCHANGED <<heap, game, copy, player, disk, run>>

\* t = GameTree(); player._alpha_beta(game, t, d, -1000000, 1000000)
AlphaBeta(d) ==
    /\ left > 0
    /\ AlphaBetaReturned(
           _alpha_beta(GameTree(objs, GAME_START_MOVE, TRUE, 0, Float(0, 1), Float(0, 1)),
                       heap, game, New(objs), d, -Infinity, Infinity))

\* player.reload_tree()
ReloadTree ==
    /\ left > 0
    /\ objs' = reload_tree(objs, player).objs
    /\ player' = reload_tree(objs, player).self
    /\ ret' = NoValue
    /\ op' = [name |-> "reload_tree", on |-> "player", move |-> <<>>, raised |-> ""]
    /\ left' = left - 1
    /\ UNCHANGED <<heap, game, copy, roots, disk, run>>

\* game.make_move(move) with the move the player returned, as run_game does.
Play ==
    /\ op.name = "ExploringPlayer.make_move"
    /\ op.raised = ""
    /\ left > 0
    /\ heap' = Collect(make_move(heap, game, ret).heap, {make_move(heap, game, ret).self._board})
    /\ game' = make_move(heap, game, ret).self
    /\ op' = [name |-> "make_move", on |-> "game", move |-> ret,
              raised |-> make_move(heap, game, ret).raised]
    /\ left' = left - 1
    /\ UNCHANGED <<copy, objs, player, roots, ret, disk, run>>

NextSearch ==
    \/ \E previous_move \in PreviousMoves : \E words \in Seeds :
           PlayerMakeMove(previous_move, words)
    \/ \E d \in 0..MaxDepth : AlphaBeta(d)
    \/ ReloadTree
    \/ Play

SpecSearch == InitSearch /\ [][NextSearch]_vars

(***************************************************************************)
(* Trees built, merged, re-evaluated, stored and read by a caller          *)
(***************************************************************************)

\* The number of calls explored on the trees.
MaxTreeCalls == 4

\* Two moves in the notation.
CannonMove == <<"c", "2", ".", "5">>
HorseMove == <<"h", "8", "+", "7">>

\* The calls of insert_move_sequence explored: games of one or two moves
\* that nobody, Red or Black won, on the tree t or the tree o.
Insertions ==
    { [on |-> "t", moves |-> <<CannonMove>>, points |-> <<-5>>,
       red |-> Float(0, 1), black |-> Float(0, 1)],
      [on |-> "o", moves |-> <<CannonMove, HorseMove>>, points |-> <<3, 12>>,
       red |-> Float(1, 1), black |-> Float(0, 1)],
      [on |-> "t", moves |-> <<HorseMove>>, points |-> <<7>>,
       red |-> Float(0, 1), black |-> Float(1, 1)],
      [on |-> "t", moves |-> <<HorseMove, CannonMove, HorseMove>>, points |-> <<6, -2, 1>>,
       red |-> Float(1, 4), black |-> Float(0, 1)] }

\* The depths explored as arguments of clean_depth_subtrees go up to this.
MaxCleanDepth == 3

\* The leaves explored as arguments of add_subtree.
Additions ==
    { [on |-> "o", move |-> CannonMove, points |-> 4,
       red |-> Float(1, 2), black |-> Float(0, 1)],
      [on |-> "t", move |-> HorseMove, points |-> -200,
       red |-> Float(0, 1), black |-> Float(1, 4)],
      [on |-> "o", move |-> HorseMove, points |-> 9,
       red |-> Float(0, 1), black |-> Float(1, 2)] }

\* The state after t = GameTree() and o = GameTree(), beside a game on
\* KingsBoard.
TreesConstructed ==
    /\ heap = Store(<<>>, 1, KingsBoard)
    /\ game = __init__(Store(<<>>, 1, KingsBoard), 1, TRUE, 100)
    /\ copy = NoGame
    /\ op = [name |-> "__init__", on |-> "t", move |-> <<>>, raised |-> ""]
    /\ left = MaxTreeCalls
    /\ objs = GameTree(GameTree(<<>>, GAME_START_MOVE, TRUE, 0, Float(0, 1), Float(0, 1)),
                       GAME_START_MOVE, TRUE, 0, Float(0, 1), Float(0, 1))
    /\ player = NoPlayer
    /\ roots = [t |-> 1, o |-> 2, loaded |-> NoTree]
    /\ ret = NoValue
    /\ disk = NoDisk
    /\ run = NoRun

InitTree == TreesConstructed

\* The state after the call name on the tree called on left the objects
\* after.
TreeCalled(name, on, after) ==
    /\ left > 0
    /\ objs' = after
    /\ op' = [name |-> name, on |-> on, move |-> <<>>, raised |-> ""]
    /\ left' = left - 1
    /\ UNCHANGED <<heap, game, copy, player, ret, disk, run>>

\* tree.insert_move_sequence(moves, points, red_win_probability,
\* black_win_probability)
InsertMoveSequence(c) ==
    /\ TreeCalled("insert_move_sequence", c.on,
                  insert_move_sequence(objs, roots[c.on], c.moves, c.points, c.red, c.black))
    /\ UNCHANGED roots

\* tree.add_subtree(GameTree(move, not tree.is_red_move, points, red, black))
AddSubtree(c) ==
    /\ TreeCalled("add_subtree", c.on,
                  add_subtree(GameTree(objs, c.move, ~objs[roots[c.on]].is_red_move,
                                       c.points, c.red, c.black),
                              roots[c.on], New(objs)))
    /\ UNCHANGED roots

\* t.merge_with(o)
MergeWith ==
    /\ TreeCalled("merge_with", "t", merge_with(objs, roots.t, roots.o))
    /\ UNCHANGED roots

\* t.purge()
Purge ==
    /\ TreeCalled("purge", "t", purge(objs, roots.t))
    /\ UNCHANGED roots

\* t.clean_depth_subtrees(depth)
CleanDepthSubtrees(depth) ==
    /\ TreeCalled("clean_depth_subtrees", "t", clean_depth_subtrees(objs, roots.t, depth))
    /\ UNCHANGED roots

\* t.reevaluate()
Reevaluate ==
    /\ TreeCalled("reevaluate", "t", reevaluate(objs, roots.t))
    /\ UNCHANGED roots

\* tree_to_xml(t, file); loaded = xml_to_tree(file)
StoreAndLoad ==
    /\ TreeCalled("xml_to_tree", "t",
                  xml_to_tree(objs, tree_to_xml(objs, roots.t)).objs)
    /\ roots' = [roots EXCEPT !.loaded = New(objs)]

\* ExploringPlayer(1, o).make_move(game, None): the search adds the moves of
\* the position to o.
SearchInto ==
    /\ TreeCalled("ExploringPlayer.make_move", "o",
                  ExploringPlayer_make_move(objs, heap, game,
                      [_game_tree |-> roots.o, _depth |-> 1], NoMove).rec.objs)
    /\ UNCHANGED roots

NextTree ==
    \/ \E c \in Insertions : InsertMoveSequence(c)
    \/ \E c \in Additions : AddSubtree(c)
    \/ MergeWith
    \/ Purge
    \/ Reevaluate
    \/ \E depth \in 1..MaxCleanDepth : CleanDepthSubtrees(depth)
    \/ StoreAndLoad
    \/ SearchInto

SpecTree == InitTree /\ [][NextTree]_vars

(***************************************************************************)
(* The evaluation applied to the board of a game                           *)
(***************************************************************************)

\* The squares the moves of a piece can take it to: a king and an advisor
\* stay in the palace, an elephant on its seven squares, a pawn goes
\* forward on its file until it is across the river.
Reach(kind, is_red) ==
    CASE kind = "k" -> {c \in (0..9) \X (3..5) : IF is_red THEN c[1] >= 7 ELSE c[1] <= 2}
      [] kind = "a" -> IF is_red THEN {<<9, 3>>, <<9, 5>>, <<8, 4>>, <<7, 3>>, <<7, 5>>}
                       ELSE {<<0, 3>>, <<0, 5>>, <<1, 4>>, <<2, 3>>, <<2, 5>>}
      [] kind = "e" -> IF is_red
                       THEN {<<9, 2>>, <<9, 6>>, <<7, 0>>, <<7, 4>>, <<7, 8>>, <<5, 2>>, <<5, 6>>}
                       ELSE {<<0, 2>>, <<0, 6>>, <<2, 0>>, <<2, 4>>, <<2, 8>>, <<4, 2>>, <<4, 6>>}
      [] kind = "p" -> {c \in (0..9) \X (0..8) :
                           IF is_red THEN c[1] <= 4 \/ (c[1] <= 6 /\ c[2] % 2 = 0)
                           ELSE c[1] >= 5 \/ (c[1] >= 3 /\ c[2] % 2 = 0)}
      [] OTHER -> (0..9) \X (0..8)

\* The boards with the kings of KingsBoard and one more piece, of any kind
\* and side, on any square it can reach.
ThreePieceBoards ==
    { BoardOf({<<9, 3, "k", R>>, <<0, 5, "k", B>>, <<c[1], c[2], kind, is_red>>}) :
        <<c, kind, is_red>> \in
            { t \in ((0..9) \X (0..8)) \X {"r", "h", "c", "p", "e", "a"} \X {R, B} :
                t[1] \in Reach(t[2], t[3]) \ {<<9, 3>>, <<0, 5>>} } }

\* The boards with only the kings, anywhere in their palaces but not on one
\* file.
TwoKingBoards ==
    { BoardOf({<<r[1], r[2], "k", R>>, <<b[1], b[2], "k", B>>}) :
        <<r, b>> \in {t \in Reach("k", R) \X Reach("k", B) : t[1][2] # t[2][2]} }

\* The call game.make_move(m) on the game of r, a result of make_move.
After(r, m) ==
    [heap |-> Collect(make_move(r.heap, r.self, m).heap, {make_move(r.heap, r.self, m).self._board}),
     self |-> make_move(r.heap, r.self, m).self,
     raised |-> make_move(r.heap, r.self, m).raised]

\* The game after ChessGame() and the moves C2.5 h2+3 H2+3 c8.6, and its
\* board.
OpeningGame ==
    After(After(After(After([heap |-> Store(<<>>, 1, InitialBoard),
                             self |-> __init__(Store(<<>>, 1, InitialBoard), 1, TRUE, 0),
                             raised |-> ""],
                            <<"C", "2", ".", "5">>),
                      <<"h", "2", "+", "3">>),
                <<"H", "2", "+", "3">>),
          <<"c", "8", ".", "6">>)
OpeningBoard == OpeningGame.heap[OpeningGame.self._board]

\* The games whose boards are evaluated, each in MaxCrowdedCalls calls.
EvalStarts ==
    { [board |-> b, red_active |-> TRUE, move_count |-> 100, crowded |-> TRUE] :
        b \in ThreePieceBoards \cup TwoKingBoards }
    \cup { [board |-> InitialBoard, red_active |-> TRUE,  move_count |-> 0,  crowded |-> TRUE],
           [board |-> OpeningBoard, red_active |-> TRUE,  move_count |-> 4,  crowded |-> TRUE],
           [board |-> MiddleBoard,  red_active |-> FALSE, move_count |-> 61, crowded |-> TRUE] }

InitEval == \E s \in EvalStarts : Constructed(s)

\* ret = calculate_absolute_points(game.get_board())
CalculateAbsolutePoints ==
    /\ left > 0
    /\ ret' = calculate_absolute_points(heap[game._board])
    /\ op' = [name |-> "calculate_absolute_points", on |-> "game", move |-> <<>>, raised |-> ""]
    /\ left' = left - 1
    /\ UNCHANGED <<heap, game, copy, objs, player, roots, disk, run>>

NextEval == CalculateAbsolutePoints

SpecEval == InitEval /\ [][NextEval]_vars

(***************************************************************************)
(* An AIBlack player beside the end of a game, and its tree file disk.xml   *)
(***************************************************************************)

\* The tree files explored: none, and the file of a tree that has the reply
\* k6.5 of Black to the move k6+1 of Red.
TreeFiles ==
    { NoFile,
      tree_to_xml(
          insert_move_sequence(
              GameTree(<<>>, GAME_START_MOVE, TRUE, 0, Float(0, 1), Float(0, 1)), 1,
              << <<"k", "6", "+", "1">>, <<"k", "6", ".", "5">> >>, <<-10, -10>>,
              Float(0, 1), Float(0, 1)),
          1) }

\* The state after player = AIBlack(xml_file, d) when the file holds xml,
\* beside a game on KingsBoard four moves before the draw, Red to move.
BlackConstructed(xml, d) ==
    /\ heap = Store(<<>>, 1, KingsBoard)
    /\ game = __init__(Store(<<>>, 1, KingsBoard), 1, TRUE, _MAX_MOVES - 4)
    /\ copy = NoGame
    /\ op = [name |-> "__init__", on |-> "player", move |-> <<>>, raised |-> ""]
    /\ left = 0
    /\ objs = AIBlack(xml, d).objs
    /\ player = AIBlack(xml, d).self
    /\ roots = NoRoots
    /\ ret = NoValue
    /\ disk = [temp |-> <<>>, xml |-> xml]
    /\ run = NoRun

InitBlack == \E xml \in TreeFiles : \E d \in 1..MaxDepth : BlackConstructed(xml, d)

\* The state after a call name on the player with move yielded done.
BlackCalled(name, move, done) ==
    /\ objs' = done.objs
    /\ player' = done.self
    /\ op' = [name |-> name, on |-> "player", move |-> move, raised |-> done.raised]
    /\ UNCHANGED <<heap, game, copy, left, roots>>

\* player.reload_tree(), as run_games does before the game.
BlackReloadTree ==
    /\ op.name = "__init__"
    /\ BlackCalled("reload_tree", <<>>,
                   [objs |-> AIBlack_reload_tree(objs, player, disk.xml).objs,
                    self |-> AIBlack_reload_tree(objs, player, disk.xml).self,
                    raised |-> ""])
    /\ UNCHANGED <<ret, disk, run>>

\* game.make_move(move) with a move of the player of Red or with the move
\* the AIBlack player returned, as run_game does.
GameMoved(move) ==
    /\ heap' = Collect(make_move(heap, game, move).heap,
                       {make_move(heap, game, move).self._board})
    /\ game' = make_move(heap, game, move).self
    /\ op' = [name |-> "make_move", on |-> "game", move |-> move,
              raised |-> make_move(heap, game, move).raised]
    /\ UNCHANGED <<copy, left, objs, player, roots, ret, disk, run>>

RedPlays ==
    /\ op.name \in {"__init__", "reload_tree", "make_move"}
    /\ game._is_red_active
    /\ get_winner(heap, game) = "None"
    /\ \E i \in 1..Len(get_valid_moves(game)) : GameMoved(get_valid_moves(game)[i])

BlackPlays ==
    /\ op.name = "AIBlack.make_move"
    /\ op.raised = ""
    /\ GameMoved(ret)

\* random.seed(...); move = player.make_move(game, previous_move) with the
\* move Red made, while the game has no winner.
BlackMakeMove(words) ==
    /\ op.name = "make_move"
    /\ ~game._is_red_active
    /\ get_winner(heap, game) = "None"
    /\ get_valid_moves(game) # <<>>
    /\ BlackCalled("AIBlack.make_move", op.move,
                   AIBlack_make_move(objs, heap, game, player, op.move, words))
    /\ ret' = AIBlack_make_move(objs, heap, game, player, op.move, words).move
    /\ UNCHANGED <<disk, run>>

\* player.store_tree() after the game, as train_black_ai does.
StoreTree ==
    /\ op.name = "make_move"
    /\ get_winner(heap, game) # "None"
    /\ BlackCalled("store_tree", <<>>, store_tree(objs, player, disk.xml))
    /\ disk' = [disk EXCEPT !.xml = store_tree(objs, player, disk.xml).xml]
    /\ run' = run
    /\ ret' = NoValue

NextBlack ==
    \/ BlackReloadTree
    \/ RedPlays
    \/ \E words \in Seeds : BlackMakeMove(words)
    \/ BlackPlays
    \/ StoreTree

SpecBlack == InitBlack /\ [][NextBlack]_vars

(***************************************************************************)
(* run_game between two players that return legal moves                    *)
(***************************************************************************)

\* The players of a run: a player [a, b] returns the legal move of index
\* (a * n + b) modulo the number of legal moves, n the moves made so far.
Players == {[a |-> 5, b |-> 0], [a |-> 3, b |-> 4]}

\* p.make_move(game, previous_move) of such a player.
Player_make_move(p, g) ==
    get_valid_moves(g)[((p.a * g._move_count + p.b) % Len(get_valid_moves(g))) + 1]

\* The player the loop always asks again.
SamePlayer(current_player) == current_player

\* if current_player is red: current_player = black, else: current_player = red
OtherPlayer(current_player) == IF current_player = "red" THEN "black" ELSE "red"

\* The state of run_game(red, black) before the first test of its loop.
RunConstructed(red, black) ==
    /\ heap = Store(<<>>, 1, InitialBoard)
    /\ game = __init__(Store(<<>>, 1, InitialBoard), 1, TRUE, 0)
    /\ copy = NoGame
    /\ op = [name |-> "__init__", on |-> "game", move |-> <<>>, raised |-> ""]
    /\ left = 0
    /\ objs = <<>>
    /\ player = NoPlayer
    /\ roots = NoRoots
    /\ ret = NoValue
    /\ disk = NoDisk
    /\ run = [red |-> red, black |-> black, current_player |-> "red",
              previous_move |-> <<>>, move_sequence |-> <<>>]

InitRun == \E red \in Players : \E black \in Players : RunConstructed(red, black)

\* The loop test of run_game holds or fails.
AtLoopTest == op.on = "game" /\ op.raised = ""

\* previous_move = current_player.make_move(game, previous_move)
RunAsks ==
    /\ AtLoopTest
    /\ get_winner(heap, game) = "None"
    /\ get_valid_moves(game) # <<>>
    /\ ret' = Player_make_move(run[run.current_player], game)
    /\ run' = [run EXCEPT !.previous_move = Player_make_move(run[run.current_player], game)]
    /\ op' = [name |-> "Player.make_move", on |-> run.current_player,
              move |-> run.previous_move, raised |-> ""]
    /\ UNCHANGED <<heap, game, copy, left, objs, player, roots, disk>>

\* game.make_move(previous_move); move_sequence.append(previous_move); the
\* other player becomes the current player.
RunMoves ==
    /\ op.name = "Player.make_move"
    /\ heap' = Collect(make_move(heap, game, run.previous_move).heap,
                       {make_move(heap, game, run.previous_move).self._board})
    /\ game' = make_move(heap, game, run.previous_move).self
    /\ op' = [name |-> "make_move", on |-> "game", move |-> run.previous_move,
              raised |-> make_move(heap, game, run.previous_move).raised]
    /\ run' = IF make_move(heap, game, run.previous_move).raised # "" THEN run
              ELSE [run EXCEPT !.move_sequence = Append(@, run.previous_move),
                               !.current_player = OtherPlayer(@)]
    /\ UNCHANGED <<copy, left, objs, player, roots, ret, disk>>

\* return game.get_winner(), move_sequence
RunReturns ==
    /\ AtLoopTest
    /\ get_winner(heap, game) # "None"
    /\ ret' = <<get_winner(heap, game), run.move_sequence>>
    /\ op' = [name |-> "run_game", on |-> "run", move |-> <<>>, raised |-> ""]
    /\ UNCHANGED <<heap, game, copy, left, objs, player, roots, disk, run>>

NextRun ==
    \/ RunAsks
    \/ RunMoves
    \/ RunReturns

\* A call of game.make_move returns: the loop body never stays between the
\* answer of a player and the move. RunMoves is enabled exactly where a
\* player has just answered, so this is WF_vars(RunMoves), written without
\* the successor state that ENABLED would have to build.
MakeMoveReturns == []<>(op.name # "Player.make_move")

\* The interpreter keeps running run_game while it has a step to take.
SpecRun ==
    /\ InitRun /\ [][NextRun]_vars
    /\ WF_vars(RunAsks) /\ WF_vars(RunReturns) /\ MakeMoveReturns

(***************************************************************************)
(* run_game with a LearningPlayer as Red against any legal replies         *)
(***************************************************************************)

\* The number of calls of make_move on the LearningPlayer explored.
MaxLearnCalls == 2

\* The depth of the LearningPlayer: one move ahead from the opening layout.
LearnDepth == 1

\* The reference of the GameTree() that is the default argument of
\* ExploringPlayer.__init__, made when the module player is loaded.
DefaultTree == 1

\* The tree files explored: none, and the file of the tree of a game Black
\* won that began p5+1 (Red), c2+7 (Black).
LearnFiles ==
    { NoFile,
      tree_to_xml(
          insert_move_sequence(
              GameTree(<<>>, GAME_START_MOVE, TRUE, 0, Float(0, 1), Float(0, 1)), 1,
              << <<"p", "5", "+", "1">>, <<"c", "2", "+", "7">> >>, <<10, -390>>,
              Float(0, 1), Float(1, 1)),
          1) }

\* LearningPlayer(depth, xml_file) when the file holds xml, after the
\* default tree is made.  Yields [objs, self].
LearningPlayer(depth, xml) ==
    LearningPlayer_reload_tree(
        GameTree(<<>>, GAME_START_MOVE, TRUE, 0, Float(0, 1), Float(0, 1)),
        [_game_tree |-> NoTree, _depth |-> depth], xml)

\* The state of run_game(player, black) before the first test of its loop,
\* player = LearningPlayer(LearnDepth, xml_file) with the file holding xml.
LearnConstructed(xml) ==
    /\ heap = Store(<<>>, 1, InitialBoard)
    /\ game = __init__(Store(<<>>, 1, InitialBoard), 1, TRUE, 0)
    /\ copy = NoGame
    /\ op = [name |-> "__init__", on |-> "game", move |-> <<>>, raised |-> ""]
    /\ left = MaxLearnCalls
    /\ objs = LearningPlayer(LearnDepth, xml).objs
    /\ player = LearningPlayer(LearnDepth, xml).self
    /\ roots = [t |-> LearningPlayer(LearnDepth, xml).self._game_tree,
                o |-> NoTree, loaded |-> NoTree]
    /\ ret = NoValue
    /\ disk = [temp |-> <<>>, xml |-> xml]
    /\ run = [red |-> "LearningPlayer", black |-> "Player", current_player |-> "red",
              previous_move |-> <<>>, move_sequence |-> <<>>]

InitLearn == \E xml \in LearnFiles : LearnConstructed(xml)

\* The state after player.make_move(game, previous_move) yielded done.
LearnerCalled(done) ==
    /\ objs' = done.objs
    /\ player' = done.self
    /\ ret' = done.move
    /\ op' = [name |-> "LearningPlayer.make_move", on |-> "player",
              move |-> run.previous_move, raised |-> done.raised]
    /\ run' = IF done.raised # "" THEN run ELSE [run EXCEPT !.previous_move = done.move]
    /\ left' = left - 1
    /\ UNCHANGED <<heap, game, copy, roots, disk>>

\* random.seed(...); previous_move = red.make_move(game, previous_move)
LearnerMakeMove(words) ==
    /\ left > 0
    /\ AtLoopTest
    /\ run.current_player = "red"
    /\ get_winner(heap, game) = "None"
    /\ LearnerCalled(LearningPlayer_make_move(objs, heap, game, player,
                                              run.previous_move, DefaultTree, words))

\* The state after game.make_move(move) yielded done; the move is recorded
\* and the other player becomes the current player unless it raised.
LearnGameMoved(move, done) ==
    /\ heap' = Collect(done.heap, {done.self._board})
    /\ game' = done.self
    /\ op' = [name |-> "make_move", on |-> "game", move |-> move, raised |-> done.raised]
    /\ run' = IF done.raised # "" THEN run
              ELSE [run EXCEPT !.previous_move = move,
                               !.move_sequence = Append(@, move),
                               !.current_player = OtherPlayer(@)]
    /\ UNCHANGED <<copy, left, objs, player, roots, ret, disk>>

\* game.make_move(previous_move) with the move the LearningPlayer returned.
LearnerPlays ==
    /\ op.name = "LearningPlayer.make_move"
    /\ op.raised = ""
    /\ LearnGameMoved(ret, make_move(heap, game, ret))

\* The answers of the player of Black explored: its legal moves of pawns,
\* horses and elephants.
Replies(g) ==
    SelectSeq(get_valid_moves(g), LAMBDA move : move[1] \in {"p", "h", "e"})

\* The player of Black returns a legal move and run_game makes it.
OpponentPlays ==
    /\ left > 0
    /\ AtLoopTest
    /\ run.current_player = "black"
    /\ get_winner(heap, game) = "None"
    /\ \E i \in 1..Len(Replies(game)) :
           LearnGameMoved(Replies(game)[i], make_move(heap, game, Replies(game)[i]))

NextLearn ==
    \/ \E words \in Seeds : LearnerMakeMove(words)
    \/ LearnerPlays
    \/ OpponentPlays

SpecLearn == InitLearn /\ [][NextLearn]_vars

(***************************************************************************)
(* Properties                                                              *)
(***************************************************************************)

\* The step is a call of method name on the game called on ("game" or "copy").
Called(name, on) == op'.name = name /\ op'.on = on /\ left' = left - 1

\* The board of game g.
BoardIn(h, g) == h[g._board]

\* C1: get_valid_moves() of the game is always the list the move generator
\* gives for the game's current board and side to move, and every make_move
\* that does not raise flips the side to move and adds one to the move count.
C1_ValidMovesAndTurn ==
    /\ [](get_valid_moves(game) =
            _calculate_moves_for_board(BoardIn(heap, game), game._is_red_active))
    /\ [][(Called("make_move", "game") /\ op'.raised = "") =>
            /\ game'._is_red_active = ~game._is_red_active
            /\ game'._move_count = game._move_count + 1]_vars

\* A make_move has succeeded and left the other side with moves to choose from.
C1_Witness ==
    /\ op.name = "make_move" /\ op.raised = ""
    /\ Len(get_valid_moves(game)) > 0

\* C2: make_move with a string that, lower-cased, is not in the legal list
\* raises ValueError and leaves the board, the side to move, the move count
\* and the legal list as they were.
C2_IllegalMoveRejected ==
    [][(Called("make_move", "game") /\ ~In(lower(op'.move), get_valid_moves(game))) =>
          /\ op'.raised = "ValueError"
          /\ game' = game
          /\ BoardIn(heap', game') = BoardIn(heap, game)]_vars

\* make_move has just raised on a string that is not a legal move.
C2_Witness ==
    /\ op.name = "make_move" /\ op.raised = "ValueError"
    /\ ~In(lower(op.move), get_valid_moves(game))

\* Game c in heap h has the board contents, side to move, move count and
\* legal moves of the game a make_move call yielded as r, without raising.
SameGame(h, c, r) ==
    /\ r.raised = ""
    /\ BoardIn(h, c) = BoardIn(r.heap, r.self)
    /\ c._is_red_active = r.self._is_red_active
    /\ c._move_count = r.self._move_count
    /\ c._valid_moves = r.self._valid_moves

\* Game g and its board are the same before and after the step.
Untouched(g) == g' = g /\ BoardIn(heap', g) = BoardIn(heap, g)

\* C3: copy_and_make_move(m) leaves the game it is called on unchanged (board
\* contents, side, count, legal list) and, when it returns, returns a game
\* on a board object of its own whose board, side to move, move count and
\* legal moves are those make_move(m) on the original would produce; a later
\* make_move on the original or on the returned game does not change the other.
\* (copy_and_make_move compares its argument as given: on the upper-case
\* spelling of a legal move it raises and returns nothing.)
C3_CopyLeavesOriginal ==
    /\ [][Called("copy_and_make_move", "game") =>
            /\ Untouched(game)
            /\ op'.raised = "" =>
                 /\ copy'._board # game'._board
                 /\ SameGame(heap', copy', make_move(heap, game, op'.move))]_vars
    /\ [][(Called("make_move", "game") /\ copy # NoGame) => Untouched(copy)]_vars
    /\ [][Called("make_move", "copy") => Untouched(game)]_vars

\* A game returned by copy_and_make_move has made a move of its own and is
\* now a position other than that of the original.
C3_Witness ==
    /\ copy # NoGame
    /\ op.name = "make_move" /\ op.on = "copy" /\ op.raised = ""
    /\ game._move_count < copy._move_count
    /\ BoardIn(heap, game) # BoardIn(heap, copy)

\* Whether a king of the given side stands on the board.
KingPresent(board, is_red) ==
    \E y \in 0..9 : \E x \in 0..8 :
        board[y][x].kind = "k" /\ board[y][x].is_red = is_red

\* The number of the four conditions that hold.
HowMany(a, b, c, d) ==
    (IF a THEN 1 ELSE 0) + (IF b THEN 1 ELSE 0) + (IF c THEN 1 ELSE 0) + (IF d THEN 1 ELSE 0)

\* get_winner() is winner, and agrees with the four conditions of which
\* exactly one holds.
WinnerByCase(winner, red_king, black_king, move_count) ==
    /\ winner = "None" <=> (red_king /\ black_king /\ move_count < _MAX_MOVES)
    /\ move_count >= _MAX_MOVES => winner = "Draw"
    /\ ~red_king => winner = "Black"
    /\ ~black_king => winner = "Red"
    /\ HowMany(red_king /\ black_king /\ move_count < _MAX_MOVES,
               move_count >= _MAX_MOVES, ~red_king, ~black_king) = 1

\* C4: in every reachable state get_winner() is None exactly while both
\* kings are on the board and the move count is below 200, 'Draw' once the
\* count is 200 or more, 'Black' if no Red king remains and 'Red' if no
\* Black king remains, and exactly one of these four conditions holds.
C4_WinnerByExclusiveCase ==
    WinnerByCase(get_winner(heap, game),
                 KingPresent(BoardIn(heap, game), TRUE),
                 KingPresent(BoardIn(heap, game), FALSE),
                 game._move_count)

\* The moves the generator encodes for the piece on pos: the squares it may
\* move to, each with the token given to the move.
Encoded(board, pos) ==
    { [start |-> pos, end |-> PieceTargets(board, pos)[i],
       token |-> MovesOfPiece(board, pos)[i]] : i \in 1..Len(PieceTargets(board, pos)) }

\* Decoding token on the board gives back the start and the end of move mv.
Decodes(board, mv, is_red) ==
    /\ _wxf_to_index(board, SubSeq(mv.token, 1, 2), is_red) = mv.start
    /\ _get_index_movement(board, mv.token, is_red) = mv.end

\* The squares holding a piece of the side is_red.
CellsOf(board, is_red) ==
    {pos \in (0..9) \X (0..8) :
        board[pos[1]][pos[2]] # None /\ board[pos[1]][pos[2]].is_red = is_red}

\* No token occurs twice in the list.
NoTokenTwice(moves) ==
    \A i \in 1..Len(moves) : \A j \in 1..Len(moves) : moves[i] = moves[j] => i = j

\* C5: on every reachable board, for every piece of the side to move and
\* every square the generator lets it move to, the token generated decodes
\* to that same piece (_wxf_to_index of its first two characters) and that
\* same square (_get_index_movement), and no two moves of a position share a
\* token, pawns doubled or tripled on one or more files included.
C5_DecodeInvertsEncode ==
    /\ \A pos \in CellsOf(BoardIn(heap, game), game._is_red_active) :
         \A mv \in Encoded(BoardIn(heap, game), pos) :
            Decodes(BoardIn(heap, game), mv, game._is_red_active)
    /\ NoTokenTwice(get_valid_moves(game))

\* Token m, decoded on the board and encoded again, is m.
RoundTrip(board, m, is_red) ==
    _get_wxf_movement(board,
                      _wxf_to_index(board, SubSeq(m, 1, 2), is_red),
                      _get_index_movement(board, m, is_red),
                      is_red) = m

\* C6: for every token m in the legal list of a reachable position,
\* decoding its start and its destination and encoding them again with
\* _get_wxf_movement gives m.
C6_EncodeInvertsDecode ==
    \A i \in 1..Len(get_valid_moves(game)) :
        RoundTrip(BoardIn(heap, game), get_valid_moves(game)[i], game._is_red_active)

\* All squares of the board.
Squares == (0..9) \X (0..8)

\* The squares holding a piece of the given kind, of either side.
CellsOfKind(board, kind) == {pos \in Squares : board[pos[1]][pos[2]].kind = kind}

\* The move of the piece on pos to square t is in the legal list of the game.
Listed(pos, t) ==
    In(_get_wxf_movement(BoardIn(heap, game), pos, t,
                         BoardIn(heap, game)[pos[1]][pos[2]].is_red),
       get_valid_moves(game))

\* The piece on pos belongs to the side to move.
Active(pos) == BoardIn(heap, game)[pos[1]][pos[2]].is_red = game._is_red_active

\* b lies strictly between a and c.
Strictly(a, b, c) == (a < b /\ b < c) \/ (c < b /\ b < a)

\* t is another square on the rank or the file of pos.
OnLine(pos, t) == t # pos /\ (t[1] = pos[1] \/ t[2] = pos[2])

\* The other squares on the rank and the file of pos.
LineSquares(pos) ==
    ({<<pos[1], x>> : x \in 0..8} \cup {<<y, pos[2]>> : y \in 0..9}) \ {pos}

\* The number of pieces strictly between pos and t, which share a rank or a file.
PiecesBetween(board, pos, t) ==
    Cardinality({c \in LineSquares(pos) :
        /\ board[c[1]][c[2]] # None
        /\ \/ c[1] = pos[1] /\ c[1] = t[1] /\ Strictly(pos[2], c[2], t[2])
           \/ c[2] = pos[2] /\ c[2] = t[2] /\ Strictly(pos[1], c[1], t[1])})

\* The cannon rule for the cannon on pos and a square t on its rank or file:
\* an empty square with nothing in between, or an enemy piece with exactly
\* one piece in between.
CannonRule(board, pos, t) ==
    \/ board[t[1]][t[2]] = None /\ PiecesBetween(board, pos, t) = 0
    \/ /\ board[t[1]][t[2]] # None
       /\ board[t[1]][t[2]].is_red # board[pos[1]][pos[2]].is_red
       /\ PiecesBetween(board, pos, t) = 1

\* The cannon on pos moves to exactly the squares of the cannon rule, and its
\* tokens are in the legal list when it is its side's turn.
CannonObeys(board, pos) ==
    /\ Range(CannonTargets(board, pos)) \subseteq LineSquares(pos)
    /\ \A t \in LineSquares(pos) :
        /\ t \in Range(CannonTargets(board, pos)) <=> CannonRule(board, pos, t)
        /\ Active(pos) => (Listed(pos, t) <=> CannonRule(board, pos, t))

\* C7: a cannon move that captures is legal if and only if exactly one piece
\* stands strictly between the cannon and the target on the line and the
\* target is an enemy piece; the moves that do not capture go to exactly the
\* empty squares before the first occupied square in each of the four
\* directions.
C7_CannonScreen ==
    \A pos \in CellsOfKind(BoardIn(heap, game), "c") : CannonObeys(BoardIn(heap, game), pos)

\* After a move, a cannon of the side to move has a capture over one screen
\* in the legal list, and an enemy piece on its line that it may not take:
\* one next to it with nothing in between, or one behind two pieces.
C7_Witness ==
    /\ op.name = "make_move" /\ op.raised = ""
    /\ \E pos \in CellsOfKind(BoardIn(heap, game), "c") :
        /\ Active(pos)
        /\ \E t \in Squares :
             /\ OnLine(pos, t) /\ BoardIn(heap, game)[t[1]][t[2]] # None
             /\ PiecesBetween(BoardIn(heap, game), pos, t) = 1 /\ Listed(pos, t)
        /\ \E t \in Squares :
             /\ OnLine(pos, t) /\ BoardIn(heap, game)[t[1]][t[2]] # None
             /\ ~Active(t)
             /\ PiecesBetween(BoardIn(heap, game), pos, t) # 1 /\ ~Listed(pos, t)

\* One step from a towards b on a coordinate: the coordinate next to a when
\* b is two away, a itself otherwise.
Halfway(a, b) == IF b = a + 2 THEN a + 1 ELSE IF b = a - 2 THEN a - 1 ELSE a

\* The leg of the horse move from pos to t: the square next to pos along the
\* axis on which the move goes two steps.
Leg(pos, t) == <<Halfway(pos[1], t[1]), Halfway(pos[2], t[2])>>

\* The horse rule for the horse on pos and a square t one of the eight
\* offsets away: the leg is empty and t holds no piece of the horse's side.
HorseRule(board, pos, t) ==
    /\ board[Leg(pos, t)[1]][Leg(pos, t)[2]] = None
    /\ \/ board[t[1]][t[2]] = None
       \/ board[t[1]][t[2]].is_red # board[pos[1]][pos[2]].is_red

\* The eight offsets of a horse.
HorseOffsets ==
    { <<2, 1>>, <<2, -1>>, <<-2, 1>>, <<-2, -1>>, <<1, 2>>, <<1, -2>>, <<-1, 2>>, <<-1, -2>> }

\* The squares on the board one of the eight offsets away from pos.
HorseSquares(pos) ==
    {<<pos[1] + d[1], pos[2] + d[2]>> : d \in HorseOffsets} \cap Squares

\* The horse on pos moves to exactly the squares of the horse rule, and its
\* tokens are in the legal list when it is its side's turn.
HorseObeys(board, pos) ==
    /\ Range(HorseTargets(board, pos)) \subseteq HorseSquares(pos)
    /\ \A t \in HorseSquares(pos) :
        /\ t \in Range(HorseTargets(board, pos)) <=> HorseRule(board, pos, t)
        /\ Active(pos) => (Listed(pos, t) <=> HorseRule(board, pos, t))

\* C8: for each of the eight offsets of a horse, the move is in the legal set
\* if and only if the target is on the board, the square next to the horse
\* along the two-step axis of the move (the leg) is empty, and the target
\* does not hold a piece of the horse's own side.
C8_HorseLeg ==
    \A pos \in CellsOfKind(BoardIn(heap, game), "h") : HorseObeys(BoardIn(heap, game), pos)

\* After a move, a horse of the side to move has a jump in the legal list
\* and another jump, to an empty square on the board, that its blocked leg
\* forbids.
C8_Witness ==
    /\ op.name = "make_move" /\ op.raised = ""
    /\ \E pos \in CellsOfKind(BoardIn(heap, game), "h") :
        /\ Active(pos)
        /\ \E t \in HorseSquares(pos) : Listed(pos, t)
        /\ \E t \in HorseSquares(pos) :
             /\ BoardIn(heap, game)[t[1]][t[2]] = None
             /\ BoardIn(heap, game)[Leg(pos, t)[1]][Leg(pos, t)[2]] # None
             /\ ~Listed(pos, t)

\* The squares of the kings of the given side (one, or none once captured).
KingsOf(board, is_red) ==
    {pos \in Squares : board[pos[1]][pos[2]] = _Piece("k", is_red)}

\* The kings on a and b are on one file with no piece between them.
Facing(board, a, b) == a[2] = b[2] /\ PiecesBetween(board, a, b) = 0

\* The moves of the king on pos that are not a single step.
LongMoves(board, pos) ==
    SelectSeq(KingTargets(board, pos),
              LAMBDA t : abs(t[1] - pos[1]) + abs(t[2] - pos[2]) # 1)

\* What make_move yields in the game for the move of the piece on pos to t.
AfterMove(pos, t) ==
    make_move(heap, game,
              _get_wxf_movement(BoardIn(heap, game), pos, t, game._is_red_active))

\* The call that yielded r did not raise and left no king of the given side.
Captured(r, is_red) ==
    r.raised = "" /\ KingsOf(BoardIn(r.heap, r.self), is_red) = {}

\* The king on pos, with the other king on other: if they face each other it
\* has exactly one move that is not a step, onto the other king, which is in
\* the legal list on its turn, decodes to the other king's square and takes
\* that king off the board; if not, it has no move but steps.
KingObeys(board, pos, other) ==
    IF Facing(board, pos, other)
    THEN /\ LongMoves(board, pos) = << other >>
         /\ Active(pos) =>
              /\ Listed(pos, other)
              /\ _get_index_movement(board,
                     _get_wxf_movement(board, pos, other, game._is_red_active),
                     game._is_red_active) = other
              /\ Captured(AfterMove(pos, other), ~game._is_red_active)
    ELSE /\ LongMoves(board, pos) = <<>>
         /\ Active(pos) => ~Listed(pos, other)

\* C9: when the two kings are on the same file with no piece between them,
\* the king of the side to move has exactly one legal move beyond its
\* one-step palace moves, and that move lands on the other king's square and
\* captures it; when a piece stands between the kings or they are on
\* different files there is no such move; and a king alone on the board has
\* none either.
C9_FlyingGeneral ==
    \A is_red \in BOOLEAN :
        \A pos \in KingsOf(BoardIn(heap, game), is_red) :
            /\ \A other \in KingsOf(BoardIn(heap, game), ~is_red) :
                   KingObeys(BoardIn(heap, game), pos, other)
            /\ KingsOf(BoardIn(heap, game), ~is_red) = {} =>
                   LongMoves(BoardIn(heap, game), pos) = <<>>

\* After a move, the kings face each other on an open file and the king of
\* the side to move has the capture of the other king in the legal list.
C9_Witness ==
    /\ op.name = "make_move" /\ op.raised = ""
    /\ \E pos \in KingsOf(BoardIn(heap, game), game._is_red_active) :
         \E other \in KingsOf(BoardIn(heap, game), ~game._is_red_active) :
            /\ Facing(BoardIn(heap, game), pos, other)
            /\ Listed(pos, other)

\* The squares two steps along a diagonal from pos.
ElephantSquares(pos) ==
    {<<pos[1] + dy, pos[2] + dx>> : dy \in {-2, 2}, dx \in {-2, 2}} \cap Squares

\* The rows of a side's own half of the board.
OwnHalf(is_red) == IF is_red THEN 5..9 ELSE 0..4

\* The elephant rule for the elephant on pos and a square t two steps along
\* a diagonal: the eye between them is empty, t is on the elephant's side of
\* the river and holds no piece of the elephant's side.
ElephantRule(board, pos, t) ==
    /\ board[Leg(pos, t)[1]][Leg(pos, t)[2]] = None
    /\ t[1] \in OwnHalf(board[pos[1]][pos[2]].is_red)
    /\ \/ board[t[1]][t[2]] = None
       \/ board[t[1]][t[2]].is_red # board[pos[1]][pos[2]].is_red

\* The elephant on pos is on its own half, moves to exactly the squares of
\* the elephant rule, and its tokens are in the legal list on its turn.
ElephantObeys(board, pos) ==
    /\ pos[1] \in OwnHalf(board[pos[1]][pos[2]].is_red)
    /\ Range(ElephantTargets(board, pos)) \subseteq ElephantSquares(pos)
    /\ \A t \in ElephantSquares(pos) :
        /\ t \in Range(ElephantTargets(board, pos)) <=> ElephantRule(board, pos, t)
        /\ Active(pos) => (Listed(pos, t) <=> ElephantRule(board, pos, t))

\* C10: in every position reached from the initial layout, and from the
\* other starting positions, each Red elephant is on rows 5-9 and each Black
\* elephant on rows 0-4; an elephant's moves are two-step diagonal moves,
\* generated only if the eye, the square in the middle, is empty (and then
\* exactly when the target is on its own half and not held by its own side).
C10_ElephantRiver ==
    \A pos \in CellsOfKind(BoardIn(heap, game), "e") :
        ElephantObeys(BoardIn(heap, game), pos)

\* After a move, an elephant of the side to move stands on the river bank
\* with a move in the legal list, and an elephant of that side has an empty
\* square two diagonal steps away that a piece on the eye keeps it from.
C10_Witness ==
    /\ op.name = "make_move" /\ op.raised = ""
    /\ \E pos \in CellsOfKind(BoardIn(heap, game), "e") :
        /\ Active(pos) /\ pos[1] \in {4, 5}
        /\ \E t \in ElephantSquares(pos) : Listed(pos, t)
    /\ \E pos \in CellsOfKind(BoardIn(heap, game), "e") :
        /\ Active(pos)
        /\ \E t \in ElephantSquares(pos) :
             /\ BoardIn(heap, game)[t[1]][t[2]] = None
             /\ t[1] \in OwnHalf(game._is_red_active)
             /\ BoardIn(heap, game)[Leg(pos, t)[1]][Leg(pos, t)[2]] # None
             /\ ~Listed(pos, t)

\* The palace of a side: columns 3-5 of its three back rows.
Palace(is_red) ==
    {t \in Squares : t[2] \in 3..5 /\ t[1] \in (IF is_red THEN 7..9 ELSE 0..2)}

\* The advisor or king on pos stands in its own palace and no advisor move,
\* and no king step, generated for it leaves that palace.
Confined(board, pos) ==
    /\ pos \in Palace(board[pos[1]][pos[2]].is_red)
    /\ Range(IF board[pos[1]][pos[2]].kind = "a"
             THEN AssistantTargets(board, pos)
             ELSE KingSteps(board, pos)) \subseteq Palace(board[pos[1]][pos[2]].is_red)

\* Every advisor or king move in the list moves, decoded on the board for
\* the side is_red, ends in that side's palace or on the other king.
EndsInPalace(board, moves, is_red) ==
    \A i \in 1..Len(moves) :
        moves[i][1] \in {"a", "k"} =>
            _get_index_movement(board, moves[i], is_red)
                \in Palace(is_red) \cup KingsOf(board, ~is_red)

\* C11: while both kings are on the board, no advisor move and no one-step
\* king move that is generated ends outside the mover's own palace (columns
\* 3-5; rows 0-2 for Black, rows 7-9 for Red), and every king and every
\* advisor stands inside its own palace.  (A king that has captured the
\* other king along the file stands in the other palace from then on.)
C11_PalaceConfinement ==
    (KingPresent(BoardIn(heap, game), TRUE) /\ KingPresent(BoardIn(heap, game), FALSE)) =>
        /\ \A pos \in CellsOfKind(BoardIn(heap, game), "a") \cup CellsOfKind(BoardIn(heap, game), "k") :
               Confined(BoardIn(heap, game), pos)
        /\ EndsInPalace(BoardIn(heap, game), get_valid_moves(game), game._is_red_active)

\* An advisor or a king has just moved, both kings are on the board, and the
\* side to move has an advisor on the edge of its palace with a move to make.
C11_Witness ==
    /\ op.name = "make_move" /\ op.raised = "" /\ lower(op.move)[1] \in {"a", "k"}
    /\ KingPresent(BoardIn(heap, game), TRUE) /\ KingPresent(BoardIn(heap, game), FALSE)
    /\ \E pos \in CellsOfKind(BoardIn(heap, game), "a") :
         /\ Active(pos) /\ pos[2] \in {3, 5}
         /\ \E t \in Palace(game._is_red_active) : Listed(pos, t)

\* The squares on which the two boards differ.
Changed(before, after) == {c \in Squares : before[c[1]][c[2]] # after[c[1]][c[2]]}

\* A pawn of the side is_red going from square from to square to takes one
\* step toward the opponent, or one step sideways from a row across the river.
PawnStep(from, to, is_red) ==
    \/ to[2] = from[2] /\ to[1] = (IF is_red THEN from[1] - 1 ELSE from[1] + 1)
    \/ /\ to[1] = from[1] /\ abs(to[2] - from[2]) = 1
       /\ (IF is_red THEN from[1] <= 4 ELSE from[1] >= 5)

\* Between the two boards one pawn of the side is_red has left a square and
\* stands on another, a pawn's step away, and nothing else has changed.
PawnStepped(before, after, is_red) ==
    \E from \in Changed(before, after) : \E to \in Changed(before, after) :
        /\ Changed(before, after) = {from, to}
        /\ before[from[1]][from[2]] = _Piece("p", is_red)
        /\ after[from[1]][from[2]] = None
        /\ after[to[1]][to[2]] = _Piece("p", is_red)
        /\ PawnStep(from, to, is_red)

\* The token names a pawn: by its kind letter or by an ordinal.
PawnToken(move) == move[1] = "p" \/ isdigit(move[1])

\* C12: every pawn move that is made displaces the pawn by exactly one
\* square: one step toward the opponent or, only from a row across the river
\* (row <= 4 for Red, row >= 5 for Black), one step sideways; so a pawn never
\* moves toward its own back rank.
C12_PawnStep ==
    [][(Called("make_move", "game") /\ op'.raised = "" /\ PawnToken(lower(op'.move))) =>
          PawnStepped(BoardIn(heap, game), BoardIn(heap', game'), game._is_red_active)]_vars

\* The number of pieces equal to the one on pos that stand on its file
\* nearer to the opponent (in front of it).
Ahead(board, pos) ==
    Cardinality({y \in 0..9 :
        /\ board[y][pos[2]] = board[pos[1]][pos[2]]
        /\ IF board[pos[1]][pos[2]].is_red THEN y < pos[1] ELSE y > pos[1]})

\* The number of pieces equal to the one on pos that stand on its file
\* nearer to its own back rank (behind it).
Behind(board, pos) ==
    Cardinality({y \in 0..9 :
        /\ board[y][pos[2]] = board[pos[1]][pos[2]]
        /\ IF board[pos[1]][pos[2]].is_red THEN y > pos[1] ELSE y < pos[1]})

\* The place of the piece on pos among its like on the file, counted from
\* the front (the opponent's end) or from the own back rank.
Place(board, pos, from_front) ==
    1 + (IF from_front THEN Ahead(board, pos) ELSE Behind(board, pos))

\* _index_to_wxf tells the piece on pos from its like on the file by its
\* place: '+' for the first of two, the ordinal for three and more.
EncodesPlace(board, pos, from_front) ==
    LET n == Ahead(board, pos) + Behind(board, pos) + 1
        token == _index_to_wxf(board, pos, board[pos[1]][pos[2]].is_red)
    IN  /\ n = 2 => token[2] = (IF Place(board, pos, from_front) = 1 THEN "+" ELSE "-")
        /\ n >= 3 => token[1] = str(Place(board, pos, from_front))

\* The square r that _wxf_to_index gave for piece is no error and holds the
\* piece of the place the token names: for '+'/'-', when it is one of two
\* on its file, the first for '+' and the second for '-'; for an ordinal,
\* the pawn of that place.
DecodedPlace(board, piece, r, from_front) ==
    ~IsError(r) =>
        IF isdigit(piece[1])
        THEN Place(board, r, from_front) = int(piece[1])
        ELSE (Ahead(board, r) + Behind(board, r) = 1) =>
                 (Place(board, r, from_front) = (IF piece[2] = "+" THEN 1 ELSE 2))

\* The tokens that tell pieces on one file apart.
PlaceTokens ==
    {<<k, sg>> : k \in {"r", "h", "e", "a", "c", "p"}, sg \in {"+", "-"}}
    \cup {<<str(n), str(f)>> : n \in 1..5, f \in 1..9}

\* Both directions of the notation use the place counted from the front, or
\* both the place counted from the own back rank, on the board of the game.
NotationOrder(from_front) ==
    /\ \A pos \in CellsOf(BoardIn(heap, game), TRUE) \cup CellsOf(BoardIn(heap, game), FALSE) :
           EncodesPlace(BoardIn(heap, game), pos, from_front)
    /\ \A piece \in PlaceTokens : \A is_red \in BOOLEAN :
           DecodedPlace(BoardIn(heap, game), piece,
                        _wxf_to_index(BoardIn(heap, game), piece, is_red), from_front)

\* C13 as stated: of two pieces of one kind and side on a file, '+' is the
\* one nearer to the side's own back rank and '-' the one farther from it;
\* of three or more pawns, ordinal N is the Nth counted from the own back
\* rank toward the opponent; _index_to_wxf and _wxf_to_index both use this.
C13_FromBackRank == NotationOrder(FALSE)

\* C13 amended: '+' is the piece in front, farther from the side's own back
\* rank, and '-' the one behind it; ordinal N is the Nth pawn counted from
\* the front, the opponent's end of the file, toward the own back rank;
\* _index_to_wxf and _wxf_to_index both use this order, for Red and Black.
C13_FromFront == NotationOrder(TRUE)

\* After a move the side to move has two pieces of a kind on one file, and a
\* side has three pawns on one file.
C13_Witness ==
    /\ op.name = "make_move" /\ op.raised = ""
    /\ \E pos \in CellsOf(BoardIn(heap, game), game._is_red_active) :
           Ahead(BoardIn(heap, game), pos) = 1 /\ Behind(BoardIn(heap, game), pos) = 0
    /\ \E pos \in Squares :
           /\ BoardIn(heap, game)[pos[1]][pos[2]].kind = "p"
           /\ Ahead(BoardIn(heap, game), pos) = 2

\* The column of the file a digit names for a side (none for the digit 0).
FileColumn(digit, is_red) == IF is_red THEN 9 - int(digit) ELSE int(digit) - 1

\* The number of pieces equal to p on column x.
OnFile(board, x, p) == Cardinality({y \in 0..9 : board[y][x] = p})

\* The kind of piece a token names: pawns for an ordinal.
KindNamed(piece) == IF isdigit(piece[1]) THEN "p" ELSE piece[1]

\* The token names a piece of the side on the board: <ordinal><file> one of
\* the three or more pawns of that file, <kind><+|-> one of several pieces
\* of the kind on one file, <kind><file> a piece of the kind on that file.
Matches(board, piece, is_red) ==
    IF isdigit(piece[1])
    THEN /\ FileColumn(piece[2], is_red) \in 0..8
         /\ OnFile(board, FileColumn(piece[2], is_red), _Piece("p", is_red)) >= 3
         /\ int(piece[1]) \in 1..OnFile(board, FileColumn(piece[2], is_red), _Piece("p", is_red))
    ELSE IF piece[2] \in {"+", "-"}
    THEN \E x \in 0..8 : OnFile(board, x, _Piece(piece[1], is_red)) >= 2
    ELSE /\ FileColumn(piece[2], is_red) \in 0..8
         /\ OnFile(board, FileColumn(piece[2], is_red), _Piece(piece[1], is_red)) >= 1

\* The result r of _wxf_to_index for the token: ValueError when the token
\* matches no piece; otherwise never another error, and a square holding a
\* piece of the kind and side named, on the file named if the token has one.
DecodedOrInvalid(board, piece, is_red, r) ==
    /\ ~Matches(board, piece, is_red) => r = ValueError
    /\ r # IndexError
    /\ ~IsError(r) =>
         /\ r \in Squares
         /\ board[r[1]][r[2]] = _Piece(KindNamed(piece), is_red)
         /\ isdigit(piece[2]) => r[2] = FileColumn(piece[2], is_red)

\* Piece tokens of the three forms, with the file digit 0 and the ordinals 0
\* and 5 among them.
PieceTokens ==
    {<<k, str(f)>> : k \in {"r", "h", "e", "a", "k", "c", "p", "x"}, f \in 0..9}
    \cup {<<k, sg>> : k \in {"r", "h", "e", "a", "k", "c", "p"}, sg \in {"+", "-"}}
    \cup {<<str(n), str(f)>> : n \in 0..5, f \in 1..9}

\* C14: _wxf_to_index raises ValueError for every piece token, of each of
\* the three forms, that matches no piece of the given side on the board; it
\* never returns the square of a piece on another file or of another kind,
\* and never fails with another kind of error; _index_to_wxf raises when the
\* square is empty or holds the opponent's piece.
C14_InvalidNotation ==
    /\ \A piece \in PieceTokens : \A is_red \in BOOLEAN :
           DecodedOrInvalid(BoardIn(heap, game), piece, is_red,
                            _wxf_to_index(BoardIn(heap, game), piece, is_red))
    /\ \A pos \in Squares : \A is_red \in BOOLEAN :
           (BoardIn(heap, game)[pos[1]][pos[2]] = None
               \/ BoardIn(heap, game)[pos[1]][pos[2]].is_red # is_red)
           => _index_to_wxf(BoardIn(heap, game), pos, is_red) = <<"ValueError", "">>

\* The game a call of copy_and_make_move returned, with its board.
Returned(r) == [game |-> r.ret, heap |-> Collect(r.heap, {r.ret._board})]

\* The game after move i of the legal moves of game.
GameAfter(h, g, i) == Returned(copy_and_make_move(h, g, get_valid_moves(g)[i]))

RECURSIVE Movable(_, _, _)

\* Movable in the position a.
MovableIn(a, d) == Movable(a.heap, a.game, d)

\* Whether every unfinished position within d moves of game has a legal
\* move.
Movable(h, g, d) ==
    \/ get_winner(h, g) # "None"
    \/ d = 0
    \/ /\ get_valid_moves(g) # <<>>
       /\ \A i \in 1..Len(get_valid_moves(g)) : MovableIn(GameAfter(h, g, i), d - 1)

RECURSIVE Minimax(_, _, _)

\* Minimax in the position a.
MinimaxIn(a, d) == Minimax(a.heap, a.game, d)

\* The value of plain minimax without pruning, d moves deep: the points of
\* the board at depth 0 and at a draw, the points plus 5000 for each
\* remaining move at a win of Red and minus that at a win of Black, the
\* maximum over the moves for Red and the minimum for Black.
Minimax(h, g, d) ==
    IF get_winner(h, g) = "Red"
    THEN calculate_absolute_points(h[g._board]) + d * 5000
    ELSE IF get_winner(h, g) = "Black"
    THEN calculate_absolute_points(h[g._board]) - d * 5000
    ELSE IF get_winner(h, g) = "Draw" \/ d = 0
    THEN calculate_absolute_points(h[g._board])
    ELSE IF g._is_red_active
    THEN MaxOf({MinimaxIn(GameAfter(h, g, i), d - 1) : i \in 1..Len(get_valid_moves(g))})
    ELSE MinOf({MinimaxIn(GameAfter(h, g, i), d - 1) : i \in 1..Len(get_valid_moves(g))})

\* C15: in every position and for every depth d in which each unfinished
\* position has a legal move, _alpha_beta(game, tree, d, -1000000, 1000000)
\* returns the value of plain minimax without pruning.
C15_AlphaBetaIsMinimax ==
    [][\A d \in 0..MaxDepth :
          (op'.name = "_alpha_beta" /\ AlphaBeta(d) /\ Movable(heap, game, d))
              => ret' = Minimax(heap, game, d)]_vars

\* A search two or more moves deep has returned, and below some move of the
\* root the loop was left by a cutoff: the move has subtrees, but fewer than
\* the position after it has moves.
C15_Witness ==
    /\ op.name = "_alpha_beta"
    /\ op.raised = ""
    /\ get_winner(heap, game) = "None"
    /\ \E i \in 1..Len(objs[roots.t]._subtrees) :
           /\ objs[objs[roots.t]._subtrees[i]].move = get_valid_moves(game)[i]
           /\ objs[objs[roots.t]._subtrees[i]]._subtrees # <<>>
           /\ Len(objs[objs[roots.t]._subtrees[i]]._subtrees)
                  < Len(get_valid_moves(GameAfter(heap, game, i).game))

\* The subtrees of the tree of the player, as a set.
RootChildren == Range(objs[player._game_tree]._subtrees)

\* The best score among the root children: the maximum when Red is to
\* move, the minimum when Black is.
BestScore ==
    IF game._is_red_active
    THEN MaxOf({objs[c].relative_points : c \in RootChildren})
    ELSE MinOf({objs[c].relative_points : c \in RootChildren})

\* The win estimate of the mover and of the opponent at tree c.
MoverEstimate(c) ==
    IF game._is_red_active THEN objs[c].red_win_probability
    ELSE objs[c].black_win_probability
OpponentEstimate(c) ==
    IF game._is_red_active THEN objs[c].black_win_probability
    ELSE objs[c].red_win_probability

\* The root children with the best score.
BestChildren == {c \in RootChildren : objs[c].relative_points = BestScore}

\* A call of ExploringPlayer.make_move has just returned a move.
MoveReturned == op.name = "ExploringPlayer.make_move" /\ op.raised = ""

\* C16: the move make_move returns is the move of a root child that has the
\* best score, among those the highest win estimate of the mover, and
\* among those the lowest win estimate of the opponent.
C16_BestChild ==
    MoveReturned =>
        \E c \in BestChildren :
            /\ objs[c].move = ret
            /\ \A b \in BestChildren : ~Less(MoverEstimate(c), MoverEstimate(b))
            /\ \A b \in BestChildren :
                   MoverEstimate(b) = MoverEstimate(c)
                       => ~Less(OpponentEstimate(b), OpponentEstimate(c))

\* A move was returned where the score did not decide alone: two root
\* children with the best score differ in the win estimate of the mover.
C16_Witness ==
    /\ MoveReturned
    /\ \E b, c \in BestChildren : Less(MoverEstimate(b), MoverEstimate(c))

\* The search of make_move(game, previous_move) by a player of the depth of
\* the player that has run no search before: ExploringPlayer(depth, GameTree()).
FirstSearch(previous_move) ==
    ExploringPlayer_make_move(
        GameTree(<<>>, GAME_START_MOVE, TRUE, 0, Float(0, 1), Float(0, 1)),
        heap, game, [_game_tree |-> 1, _depth |-> player._depth], previous_move)

\* C17: a call of ExploringPlayer.make_move on a position, with the random
\* generator seeded, returns the move and leaves the root relative_points
\* that the same call returns and leaves when the player ran no search
\* before: both depend on the position, the depth and the seed only.
C17_SearchDeterminism ==
    [][\A previous_move \in PreviousMoves : \A words \in Seeds :
          (op'.name = "ExploringPlayer.make_move" /\ PlayerMakeMove(previous_move, words))
              => /\ ret' = Chosen(FirstSearch(previous_move), game._is_red_active, words)
                 /\ objs'[player'._game_tree].relative_points
                        = FirstSearch(previous_move).rec.value]_vars

\* The tree at reference tree as a value: its fields and, in order, its
\* subtrees as values.
RECURSIVE Unfold(_, _)
Unfold(os, tree) ==
    [move |-> os[tree].move,
     is_red_move |-> os[tree].is_red_move,
     relative_points |-> os[tree].relative_points,
     red_win_probability |-> os[tree].red_win_probability,
     black_win_probability |-> os[tree].black_win_probability,
     subtrees |-> [i \in 1..Len(os[tree]._subtrees) |-> Unfold(os, os[tree]._subtrees[i])]]

\* The nodes of the tree at reference tree.
RECURSIVE NodesOf(_, _)
NodesOf(os, tree) ==
    {tree} \cup UNION {NodesOf(os, os[tree]._subtrees[i]) : i \in 1..Len(os[tree]._subtrees)}

\* Whether no node of the tree has two children with the same move.
NoSameMoveChildren(os, tree) ==
    \A n \in NodesOf(os, tree) :
        \A i, j \in 1..Len(os[n]._subtrees) :
            os[os[n]._subtrees[i]].move = os[os[n]._subtrees[j]].move => i = j

\* C18: after t.merge_with(o), a second t.merge_with(o) leaves t equal in
\* structure, child order and every node field, and no node of t has two
\* children with the same move.
C18_MergeIdempotent ==
    op.name = "merge_with" =>
        /\ Unfold(merge_with(objs, roots.t, roots.o), roots.t) = Unfold(objs, roots.t)
        /\ NoSameMoveChildren(objs, roots.t)

\* C19: the tree read back from the file that tree_to_xml wrote for t is
\* identical to t: the same nodes in the same order with the same move,
\* side flag, relative_points and both win estimates, the root included.
C19_RoundTrip ==
    op.name = "xml_to_tree" => Unfold(objs, roots.loaded) = Unfold(objs, roots.t)

\* 0 <= x <= 1 for the float x.
InUnitInterval(x) == 0 <= x[1] /\ x[1] <= x[2]

\* C20: 0 <= red_win_probability <= 1 and 0 <= black_win_probability <= 1
\* on every node after any sequence of add_subtree, insert_move_sequence,
\* merge_with, reevaluate and search steps, the leaves being created with
\* estimates in [0, 1].
C20_EstimatesInUnitInterval ==
    \A n \in 1..Len(objs) :
        /\ InUnitInterval(objs[n].red_win_probability)
        /\ InUnitInterval(objs[n].black_win_probability)

\* After a merge, a tree with subtrees has an estimate strictly between 0
\* and 1 that is the average over several subtrees.
C20_Witness ==
    /\ op.name = "merge_with"
    /\ \E n \in NodesOf(objs, roots.t) :
           /\ Len(objs[n]._subtrees) > 1
           /\ objs[n].black_win_probability \notin {Float(0, 1), Float(1, 1)}

\* The board with the colour of every piece swapped, rotated by 180 degrees.
Mirrored(board) ==
    [y \in 0..9 |-> [x \in 0..8 |->
        IF board[9 - y][8 - x] = None THEN None
        ELSE _Piece(board[9 - y][8 - x].kind, ~board[9 - y][8 - x].is_red)]]

\* C22: the evaluation is side-mirrored.  Whenever calculate_absolute_points
\* has been applied to the board of the game, the board with the colours
\* swapped and rotated by 180 degrees evaluates to the negated points; the
\* opening layout evaluates to 0, and so does the board after the opening
\* C2.5 h2+3 H2+3 c8.6.
C22_EvaluationMirrored ==
    op.name = "calculate_absolute_points" =>
        /\ calculate_absolute_points(Mirrored(BoardIn(heap, game))) = -ret
        /\ BoardIn(heap, game) \in {InitialBoard, OpeningBoard} => ret = 0

\* C22 happens: a board with a Black horse on a bonus square of Black has
\* been evaluated.
C22_Witness ==
    /\ op.name = "calculate_absolute_points"
    /\ BoardIn(heap, game)[8][2] = _Piece("h", B)
    /\ ret = -470

\* The board reflected left-right.
Reflected(board) == [y \in 0..9 |-> [x \in 0..8 |-> board[y][8 - x]]]

\* C23: move-count symmetry.  The legal moves of the game are, as a set of
\* tokens and in number, those of the other side on the mirrored board
\* (colours swapped, rotated by 180 degrees), and as many as those of the
\* same side on the board reflected left-right.
C23_MoveSymmetry ==
    /\ Range(_calculate_moves_for_board(Mirrored(BoardIn(heap, game)), ~game._is_red_active))
           = Range(game._valid_moves)
    /\ Len(_calculate_moves_for_board(Mirrored(BoardIn(heap, game)), ~game._is_red_active))
           = Len(game._valid_moves)
    /\ Len(_calculate_moves_for_board(Reflected(BoardIn(heap, game)), game._is_red_active))
           = Len(game._valid_moves)

\* C23 happens: after a move, Black is to move with two pieces of a kind on
\* one file, and a pawn of Black across the river can step sideways.
C23_Witness ==
    /\ op.name = "make_move" /\ op.raised = ""
    /\ ~game._is_red_active
    /\ \E i \in 1..Len(game._valid_moves) :
           game._valid_moves[i][1] = "p" /\ game._valid_moves[i][2] \in {"+", "-"}
                                        /\ game._valid_moves[i][3] = "."

\* Whether the call name with the move m on the live game left what the
\* same call with the lower-case spelling of m leaves: the same exception
\* or none and, without one, the same game (for make_move) or the same
\* returned game (for copy_and_make_move) on the same board.
AsLowerCase(name, m) ==
    IF name = "make_move"
    THEN /\ op'.raised = make_move(heap, game, lower(m)).raised
         /\ game' = make_move(heap, game, lower(m)).self
         /\ BoardIn(heap', game')
                = BoardIn(make_move(heap, game, lower(m)).heap, make_move(heap, game, lower(m)).self)
    ELSE /\ op'.raised = copy_and_make_move(heap, game, lower(m)).raised
         /\ game' = game
         /\ op'.raised = "" =>
                /\ copy' = copy_and_make_move(heap, game, lower(m)).ret
                /\ BoardIn(heap', copy')
                       = BoardIn(copy_and_make_move(heap, game, lower(m)).heap,
                                 copy_and_make_move(heap, game, lower(m)).ret)

\* A call on the live game with a spelling of a legal move.
LegalSpelling ==
    /\ op'.on = "game"
    /\ op'.name \in {"make_move", "copy_and_make_move"}
    /\ left' = left - 1
    /\ In(lower(op'.move), game._valid_moves)

\* C24: move strings are case-insensitive on input.  make_move and
\* copy_and_make_move, given any spelling of a legal move, leave what they
\* leave for its lower-case spelling.
C24_CaseInsensitive ==
    [][LegalSpelling => AsLowerCase(op'.name, op'.move)]_vars

\* The part of C24 about make_move alone.
C24_MakeMoveCaseInsensitive ==
    [][LegalSpelling /\ op'.name = "make_move" => AsLowerCase(op'.name, op'.move)]_vars

\* The moves of the children of node n.
ChildMoves(os, n) == {os[os[n]._subtrees[i]].move : i \in 1..Len(os[n]._subtrees)}

\* The moves found under the children of n that have the move m.
MovesUnder(os, n, m) ==
    UNION {ChildMoves(os, c) : c \in {d \in Range(os[n]._subtrees) : os[d].move = m}}

\* A call of purge, or of a method that purges, on the tree t.
Purged ==
    /\ op'.name \in {"purge", "reevaluate", "merge_with"}
    /\ op'.on = "t"
    /\ left' = left - 1

\* C26: after t.purge(), t.reevaluate() and t.merge_with(o), no two children
\* of t have the same move, and after purge the moves that were under the
\* children with one move are under the child kept for it.
C26_PurgeRemovesDuplicates ==
    [][Purged =>
          /\ \A i, j \in 1..Len(objs'[roots.t]._subtrees) :
                 objs'[objs'[roots.t]._subtrees[i]].move = objs'[objs'[roots.t]._subtrees[j]].move
                     => i = j
          /\ op'.name = "purge" =>
                 \A m \in ChildMoves(objs, roots.t) :
                     MovesUnder(objs', roots.t, m) = MovesUnder(objs, roots.t, m)]_vars

\* The relative points the children of node n give it: the greatest when
\* Red is to move at n, the least otherwise.
BestOfChildren(os, n) ==
    IF os[n].is_red_move THEN MaxOf(SubtreePoints(os, n)) ELSE MinOf(SubtreePoints(os, n))

\* C27: after t.reevaluate() and t.merge_with(o), every node of t with
\* children, t included, has the best relative points of its children for
\* the side to move and the win estimates the update rule gives from its
\* children; a leaf that was there before the call keeps its values.
C27_Reevaluated ==
    [][op'.name \in {"reevaluate", "merge_with"} /\ op'.on = "t" /\ left' = left - 1 =>
          \A n \in NodesOf(objs', roots.t) :
              IF objs'[n]._subtrees = <<>>
              THEN n <= Len(objs) /\ objs[n]._subtrees = <<>> => objs'[n] = objs[n]
              ELSE /\ objs'[n].relative_points = BestOfChildren(objs', n)
                   /\ _update_win_probabilities(objs', n)[n] = objs'[n]]_vars

\* C28: after make_move has returned, the children of the root of the
\* player are the legal moves of the game, each exactly once, and the move
\* returned is a legal move; whatever previous_move was and whatever the
\* player searched before.
C28_RootChildrenAreLegalMoves ==
    MoveReturned =>
        /\ ChildMoves(objs, player._game_tree) = Range(get_valid_moves(game))
        /\ Len(objs[player._game_tree]._subtrees) = Len(get_valid_moves(game))
        /\ \A i, j \in 1..Len(objs[player._game_tree]._subtrees) :
               objs[objs[player._game_tree]._subtrees[i]].move
                   = objs[objs[player._game_tree]._subtrees[j]].move => i = j
        /\ In(ret, get_valid_moves(game))

\* The part of C28 for a player that is given the move of its opponent.
C28_WithPreviousMove ==
    MoveReturned /\ op.move # NoMove =>
        /\ ChildMoves(objs, player._game_tree) = Range(get_valid_moves(game))
        /\ Len(objs[player._game_tree]._subtrees) = Len(get_valid_moves(game))
        /\ In(ret, get_valid_moves(game))

\* The moves make_move can return after its search: those of the candidates
\* random.choice picks from.
CanReturn ==
    {objs[c].move :
        c \in Range(Candidates([objs |-> objs,
                                value |-> objs[player._game_tree].relative_points,
                                raised |-> ""],
                               player, game._is_red_active))}

\* C25: every move make_move can return is minimax-optimal at the depth of
\* the player: it is a legal move, and the value of plain minimax without
\* pruning of the position after it, one move less deep, is the value of
\* plain minimax of the position searched.
C25_ReturnedMoveOptimal ==
    MoveReturned =>
        \A m \in CanReturn :
            /\ In(m, get_valid_moves(game))
            /\ MinimaxIn(GameAfter(heap, game, index(get_valid_moves(game), m) + 1),
                         player._depth - 1)
                   = Minimax(heap, game, player._depth)

\* Whether the ranges r handed to the processes for n moves are contiguous,
\* one for each process, from 0 to n, so that every index below n is in
\* the range of exactly one process.
Partitioned(r, n) ==
    /\ Len(r) = PROCESSES
    /\ r[1][1] = 0
    /\ r[PROCESSES][2] = n
    /\ \A w \in 1..PROCESSES : r[w][1] <= r[w][2]
    /\ \A w \in 1..(PROCESSES - 1) : r[w + 1][1] = r[w][2]
    /\ \A i \in 0..(n - 1) :
           Cardinality({w \in 1..PROCESSES : r[w][1] <= i /\ i < r[w][2]}) = 1

\* The directory temp once the processes of a search of the game at the
\* depth of the player are joined.
DirectoryJoined ==
    StartFrom(<<>>, heap, game, player._depth, -Infinity, Infinity,
              Ranges(Len(get_valid_moves(game))), 1, <<>>)

FreshRoot(previous_move) ==
    IF previous_move = NoMove
    THEN GameTree(<<>>, GAME_START_MOVE, TRUE, 0, Float(0, 1), Float(0, 1))
    ELSE GameTree(<<>>, previous_move, game._is_red_active, 0, Float(0, 1), Float(0, 1))

\* Whether make_move with previous_move searches from a new root.
Fresh(previous_move) ==
    \/ previous_move # NoMove
    \/ Unfold(objs, player._game_tree) = Unfold(FreshRoot(NoMove), 1)

\* The sequential search of the game from the new root, at the depth of the
\* player: _alpha_beta(game, root, depth, -1000000, 1000000).
Sequential(previous_move) ==
    _alpha_beta(FreshRoot(previous_move), heap, game, 1, player._depth, -Infinity, Infinity)

C21_MissingFileIsNormal ==
    (op.on = "player" /\ disk.xml = NoFile) => op.raised = ""

\* C31: when _alpha_beta(game, tree, d, -1000000, 1000000) with d > 0 is
\* called on an unfinished position in which the side to move has no legal
\* move (get_valid_moves() is empty), it returns the static evaluation
\* calculate_absolute_points of the board and gives it to the tree.
C31_NoMoveIsEvaluated ==
    [][\A d \in 1..MaxDepth :
          (op'.name = "_alpha_beta" /\ AlphaBeta(d)
              /\ get_winner(heap, game) = "None" /\ get_valid_moves(game) = <<>>)
              => /\ ret' = calculate_absolute_points(heap[game._board])
                 /\ objs'[roots'.t].relative_points
                        = calculate_absolute_points(heap[game._board])]_vars

\* The sum of the floats of chances at the places in S.
RECURSIVE SumOver(_, _)
SumOver(chances, S) ==
    IF S = {} THEN <<0, 1>>
    ELSE Plus(chances[CHOOSE i \in S : TRUE],
              SumOver(chances, S \ {CHOOSE i \in S : TRUE}))

\* Whether x is the greatest of the floats of chances.
IsMaximum(x, chances) ==
    /\ \E i \in 1..Len(chances) : chances[i] = x
    /\ \A i \in 1..Len(chances) : ~Less(x, chances[i])

\* Whether x is the mean of the h largest of the floats of chances.
IsMeanOfLargest(x, chances, h) ==
    \E S \in SUBSET (1..Len(chances)) :
        /\ Cardinality(S) = h
        /\ \A i \in S : \A j \in (1..Len(chances)) \ S : ~Less(chances[i], chances[j])
        /\ x[1] * SumOver(chances, S)[2] * h = SumOver(chances, S)[1] * x[2]

\* The rule of the estimates at node n with k >= 1 children, ceil(0.8 * k)
\* being the least h with 5 * h >= 4 * k: the estimate of the side to move
\* is the maximum of those of the children, the estimate of the other side
\* the mean of the ceil(0.8 * k) largest of the children.
EstimatesFollowChildren(os, n) ==
    os[n]._subtrees # <<>> =>
        IF os[n].is_red_move
        THEN /\ IsMaximum(os[n].red_win_probability, RedChances(os, n))
             /\ IsMeanOfLargest(os[n].black_win_probability, BlackChances(os, n),
                                (4 * Len(os[n]._subtrees) + 4) \div 5)
        ELSE /\ IsMaximum(os[n].black_win_probability, BlackChances(os, n))
             /\ IsMeanOfLargest(os[n].red_win_probability, RedChances(os, n),
                                (4 * Len(os[n]._subtrees) + 4) \div 5)

\* The node reached from n by the first k of the moves, each time through
\* the first child with the move; None if there is none.
RECURSIVE PathNode(_, _, _, _)
PathNode(os, n, moves, k) ==
    IF k = 0 THEN n
    ELSE IF PathNode(os, n, moves, k - 1) = NoTree THEN NoTree
    ELSE find_subtree_by_move(os, PathNode(os, n, moves, k - 1), moves[k])

\* Whether the newest tree object is a leaf with the estimates red, black.
NewLeafKeeps(os, red, black) ==
    os[Len(os)]._subtrees = <<>> =>
        /\ os[Len(os)].red_win_probability = red
        /\ os[Len(os)].black_win_probability = black

\* C32: right after tree.add_subtree(leaf) the estimates of the tree follow
\* the rule of its children, and the leaf keeps the estimates it was
\* created with.  After tree.insert_move_sequence(moves, ...) every node
\* of the path of the moves exists, the estimates of each of them up to
\* the root follow the rule of its children, and a leaf made for the last
\* move keeps the estimates it was created with.
C32_EstimatesFollowChildren ==
    [][/\ \A c \in Additions :
             (op'.name = "add_subtree" /\ AddSubtree(c))
                 => /\ EstimatesFollowChildren(objs', roots[c.on])
                    /\ NewLeafKeeps(objs', c.red, c.black)
       /\ \A c \in Insertions :
             (op'.name = "insert_move_sequence" /\ InsertMoveSequence(c))
                 => /\ \A k \in 0..Len(c.moves) :
                           /\ PathNode(objs', roots[c.on], c.moves, k) # NoTree
                           /\ EstimatesFollowChildren(
                                  objs', PathNode(objs', roots[c.on], c.moves, k))
                    /\ Len(objs') > Len(objs) => NewLeafKeeps(objs', c.red, c.black)]_vars

\* C32 happens: after add_subtree the tree o, where Red is to move, has
\* five or more children, so that the lowest black estimate among them is
\* left out of the mean, and the mean is not 0.
C32_Witness ==
    /\ op.name = "add_subtree"
    /\ op.on = "o"
    /\ Len(objs[roots.o]._subtrees) >= 5
    /\ objs[roots.o].black_win_probability # Float(0, 1)

\* The cells of the board.
Cells == (0..9) \X (0..8)

\* Whether board after differs from board before in exactly the cells
\* origin and dest: a piece of the side is_red left origin for dest, and a
\* piece that stood on dest belonged to the other side.
MovedBetween(before, after, origin, dest, is_red) ==
    /\ origin # dest
    /\ before[origin[1]][origin[2]] # None
    /\ before[origin[1]][origin[2]].is_red = is_red
    /\ after[origin[1]][origin[2]] = None
    /\ after[dest[1]][dest[2]] = before[origin[1]][origin[2]]
    /\ before[dest[1]][dest[2]] # None => before[dest[1]][dest[2]].is_red # is_red
    /\ \A c \in Cells \ {origin, dest} : after[c[1]][c[2]] = before[c[1]][c[2]]

\* The number of kings of the side is_red on the board.
Kings(board, is_red) ==
    Cardinality({c \in Cells : board[c[1]][c[2]] = _Piece("k", is_red)})

\* The number of pieces of the side is_red on the board.
Pieces(board, is_red) ==
    Cardinality({c \in Cells : board[c[1]][c[2]] # None /\ board[c[1]][c[2]].is_red = is_red})

\* C33: every successful game.make_move changes exactly two cells of the
\* board: a piece of the side that moved leaves its cell empty and stands
\* on the destination, and a piece that stood there belonged to the other
\* side.  No side gains a piece, the side that moved loses none, and each
\* side has at most one king afterwards.
C33_TwoCellsChange ==
    [][(op'.name = "make_move" /\ op'.on = "game" /\ op'.raised = "")
          => /\ \E origin \in Cells : \E dest \in Cells :
                    MovedBetween(heap[game._board], heap'[game'._board],
                                 origin, dest, game._is_red_active)
             /\ Pieces(heap'[game'._board], game._is_red_active)
                    = Pieces(heap[game._board], game._is_red_active)
             /\ Pieces(heap'[game'._board], ~game._is_red_active)
                    <= Pieces(heap[game._board], ~game._is_red_active)
             /\ Kings(heap'[game'._board], TRUE) <= 1
             /\ Kings(heap'[game'._board], FALSE) <= 1]_vars

\* C34: 0 <= _move_count <= _MAX_MOVES holds for the game, and for the game
\* copy_and_make_move made, in every state reached by successful make_move
\* and copy_and_make_move calls.
C34_MoveCountInRange ==
    /\ 0 <= game._move_count
    /\ game._move_count <= _MAX_MOVES
    /\ 0 <= copy._move_count
    /\ copy._move_count <= _MAX_MOVES

\* The locals of run_game agree with the game: one entry of move_sequence
\* per move made, at most _MAX_MOVES of them, Red asked at the even counts
\* and Black at the odd ones, each with the move made last, and the move a
\* player returned is legal and is the one applied.
RunAgrees ==
    /\ Len(run.move_sequence) = game._move_count
    /\ game._move_count <= _MAX_MOVES
    /\ op.name = "Player.make_move" =>
        /\ (op.on = "red") <=> (Len(run.move_sequence) % 2 = 0)
        /\ (op.on = "black") <=> (Len(run.move_sequence) % 2 = 1)
        /\ op.move = IF run.move_sequence = <<>> THEN <<>>
                     ELSE run.move_sequence[Len(run.move_sequence)]
        /\ \E i \in 1..Len(get_valid_moves(game)) : get_valid_moves(game)[i] = ret
    /\ op.name = "make_move" =>
        /\ op.raised = ""
        /\ run.move_sequence[Len(run.move_sequence)] = op.move
        /\ op.move = ret
    /\ op.name = "run_game" =>
        /\ ret[1] \in {"Red", "Black", "Draw"}
        /\ ret[2] = run.move_sequence

\* No player can return a legal move although the game has no winner.
NoLegalMove == AtLoopTest /\ get_winner(heap, game) = "None" /\ get_valid_moves(game) = <<>>

\* C35: run_game between players that return legal moves always returns,
\* after at most 200 moves, with 'Red', 'Black' or 'Draw' and one list entry
\* per move made; Red is asked first, the players are asked alternately,
\* and each returned move is applied before the other player is asked.
C35_RunGameFinishes == [](RunAgrees) /\ <>(op.name = "run_game" \/ NoLegalMove)

\* A run that returned a draw after _MAX_MOVES moves.
C35_Witness == op.name = "run_game" /\ ret[1] = "Draw" /\ Len(ret[2]) = _MAX_MOVES

\* Whether each child in the tree is of the other side than its parent.
SidesAlternate(os, tree) ==
    \A n \in NodesOf(os, tree) :
        \A i \in 1..Len(os[n]._subtrees) :
            os[os[n]._subtrees[i]].is_red_move = ~os[n].is_red_move

\* The number of leading moves whose path from n is in the tree.
PresentPrefix(os, n, moves) ==
    CHOOSE k \in 0..Len(moves) :
        /\ PathNode(os, n, moves, k) # NoTree
        /\ k < Len(moves) => PathNode(os, n, moves, k + 1) = NoTree

\* What insert_move_sequence(moves, ...) on the tree n made of the objects
\* before: the whole path is there, the nodes of the prefix that was there
\* are the same objects, one object is made for each other move, and the
\* tree keeps the side of its root, distinct moves among siblings and
\* alternating sides if it had them.
Inserted(before, after, n, moves) ==
    /\ \A k \in 1..Len(moves) : PathNode(after, n, moves, k) # NoTree
    /\ \A k \in 1..PresentPrefix(before, n, moves) :
           PathNode(after, n, moves, k) = PathNode(before, n, moves, k)
    /\ Len(after) = Len(before) + Len(moves) - PresentPrefix(before, n, moves)
    /\ after[n].is_red_move = before[n].is_red_move
    /\ NoSameMoveChildren(before, n) => NoSameMoveChildren(after, n)
    /\ SidesAlternate(before, n) => SidesAlternate(after, n)

\* C36: insert_move_sequence(moves, points) leaves the path of the moves in
\* the tree, reusing the nodes of a prefix that was there; a tree GameTree()
\* starts with a Red root and nothing else, and an insertion keeps the side
\* of the root, the distinct moves among siblings and the alternation of
\* the sides, so a tree built by insertions alone has all three.
C36_InsertionKeepsShape ==
    [][/\ op.name = "__init__" =>
            \A on \in {"t", "o"} :
                /\ objs[roots[on]].is_red_move
                /\ objs[roots[on]]._subtrees = <<>>
       /\ \A c \in Insertions :
            (op'.name = "insert_move_sequence" /\ InsertMoveSequence(c)) =>
                Inserted(objs, objs', roots[c.on], c.moves)]_vars

\* After an insertion of two moves into o the first move is the leaf that
\* add_subtree had put there, with the second move below it.
C36_Witness ==
    /\ op.name = "insert_move_sequence"
    /\ op.on = "o"
    /\ PathNode(objs, roots.o, <<CannonMove, HorseMove>>, 2) # NoTree
    /\ objs[PathNode(objs, roots.o, <<CannonMove, HorseMove>>, 1)].relative_points = 4
    /\ NoSameMoveChildren(objs, roots.o)
    /\ SidesAlternate(objs, roots.o)

\* The tree at reference tree as a value, each node at the depth d (the
\* node tree is at the depth 1) without its subtrees.
RECURSIVE Cut(_, _, _)
Cut(os, tree, d) ==
    [move |-> os[tree].move,
     is_red_move |-> os[tree].is_red_move,
     relative_points |-> os[tree].relative_points,
     red_win_probability |-> os[tree].red_win_probability,
     black_win_probability |-> os[tree].black_win_probability,
     subtrees |-> IF d = 1 THEN <<>>
                  ELSE [i \in 1..Len(os[tree]._subtrees) |->
                           Cut(os, os[tree]._subtrees[i], d - 1)]]

\* C37: after t.clean_depth_subtrees(d) with d >= 1 the height of t is at
\* most d, and t is the tree it was with the nodes at the depth d made
\* leaves: the nodes down to the depth d are kept in their order with their
\* move, side, relative points and win estimates.
C37_TruncatedAtDepth ==
    [][\A d \in 1..MaxCleanDepth :
          (op'.name = "clean_depth_subtrees" /\ CleanDepthSubtrees(d)) =>
              /\ get_height(objs', roots.t, 1) <= d
              /\ Unfold(objs', roots.t) = Cut(objs, roots.t, d)]_vars

\* A truncation that left a tree of three levels: the second move of the
\* inserted sequence of three is a leaf, and the root keeps an estimate
\* above zero.
C37_Witness ==
    /\ op.name = "clean_depth_subtrees"
    /\ get_height(objs, roots.t, 1) = 3
    /\ PathNode(objs, roots.t, <<HorseMove, CannonMove>>, 2) # NoTree
    /\ objs[PathNode(objs, roots.t, <<HorseMove, CannonMove>>, 2)]._subtrees = <<>>
    /\ objs[PathNode(objs, roots.t, <<HorseMove, CannonMove>>, 2)].relative_points = -2
    /\ objs[roots.t].red_win_probability # Float(0, 1)

\* C38: in every tree of the AIBlack player the sides alternate along each
\* path: in the tree it follows (_game_tree) and in the tree it records
\* move by move during the game (_current_tree) each child is of the other
\* side than its parent.
C38_SidesAlternate ==
    op.on = "player" =>
        /\ SidesAlternate(objs, player._current_tree)
        /\ player._game_tree # NoTree => SidesAlternate(objs, player._game_tree)

\* C39: whenever the LearningPlayer takes its move from its tree, the tree
\* it holds after descending to the previous move is the node reached from
\* the root by the moves played so far, and the move it returns is one of
\* game.get_valid_moves().
C39_CursorFollowsGame ==
    [][(/\ op'.name = "LearningPlayer.make_move"
        /\ op'.raised = ""
        /\ TakesFromTree(objs, Descended(objs, player, run.previous_move))) =>
           /\ Descended(objs, player, run.previous_move)._game_tree
                  = PathNode(objs, roots.t, run.move_sequence, Len(run.move_sequence))
           /\ In(ret', get_valid_moves(game))]_vars

\* C40: t.merge_with(o) leaves no node shared between t and o, and no call
\* on t changes o: o has the same structure and the same field values on
\* every node after the merge and after every later call on t.
C40_MergeLeavesOther ==
    [][/\ op'.name = "merge_with" =>
            NodesOf(objs', roots.t) \cap NodesOf(objs', roots.o) = {}
       /\ op'.on = "t" => Unfold(objs', roots.o) = Unfold(objs, roots.o)]_vars

====
